---------------------------- MODULE Spec2Model ----------------------------
(***************************************************************************)
(* A model of justinnhli_research/reinforcement_learning.py: the value     *)
(* types (AttrDict, Action, State), the GridWorld environment and the      *)
(* TabularQLearningAgent.                                                  *)
(*                                                                         *)
(* Python values are records carrying their class in the field "type".     *)
(* Python floats are modelled as exact rationals.                          *)
(***************************************************************************)
EXTENDS Integers, Sequences, FiniteSets, TLC

VARIABLES
    gridworld,  \* the fields of one GridWorld instance
    history,    \* the calls made on the environment in the current episode
    operands,   \* two Action values under comparison
    compared,   \* the outcome of == and hash() on the operands
    agent,      \* the fields of one TabularQLearningAgent instance
    called,     \* the last call made on the agent
    written,    \* the (observation, action) keys assigned by update steps
    calls,      \* the number of calls made on the agent
    env,        \* the TMaze, or the gating-memory environment
    last,       \* the last call made on env, with the instance before it
    steps,      \* the number of react calls on env in the episode
    legal,      \* every react of the episode took an action of get_actions()
    run,        \* run_interactive_episode: its position, locals and calls
    job         \* the last call of pspace_run, with its arguments and outcome

vars == <<gridworld, history, operands, compared, agent, called, written,
          calls, env, last, steps, legal, run, job>>

envVars == <<gridworld, history>>
valueVars == <<operands, compared>>
agentVars == <<agent, called, written, calls>>
mazeVars == <<env, last, steps, legal>>
runVars == <<run, job>>

(***************************************************************************)
(* Bounds.                                                                 *)
(***************************************************************************)
MaxDim == 3     \* width and height of a GridWorld range over 1..MaxDim
MaxTrace == 3   \* react calls recorded per episode
MaxSlots == 2   \* gate actions name a slot in 0..MaxSlots-1
MaxCalls == 4   \* calls made on the agent in one run
MaxEpsilonCalls == 3 \* calls made on the epsilon-greedy agent in one run
MaxLength == 3  \* the length of a TMaze ranges over 0..MaxLength
MaxSteps == 5   \* react calls made on a TMaze in one episode
MaxGatedLength == 1 \* the length of a TMaze under the gating memory
MaxGatedSteps == 3  \* react calls made on a gating memory in one episode
MaxRunLength == 2   \* the length of a TMaze under run_interactive_episode
MaxEpisodes == 2    \* num_episodes of run_interactive_episode
MaxRunSteps == 4    \* passes of the while loop in one run
MaxParams == 5      \* the size of a parameter space
MaxCores == 3       \* num_cores ranges up to MaxCores

(***************************************************************************)
(* Value types.                                                            *)
(***************************************************************************)
\* Python's None.
PyNone == [type |-> "NoneType"]

\* AttrDict.__init__ without keyword arguments: an empty _attributes_ dict.
NoAttrs == <<>>

\* Action.__init__: _attributes_ holds the keyword arguments, and name is an
\* ordinary instance attribute next to it (it is not put in _attributes_).
Action(name, kwargs) == [type |-> "Action", name |-> name, attrs |-> kwargs]

\* State(**kwargs): an AttrDict subclass that adds nothing.
State(kwargs) == [type |-> "State", attrs |-> kwargs]

\* The order of the attribute keys under Python's string comparison.
KeyOrder == <<"attribute", "col", "row", "slot", "symbol", "x", "y">>

\* sorted(self._attributes_.items()): the (key, value) pairs by key.
SortedItems(attrs) ==
    LET keys == SelectSeq(KeyOrder, LAMBDA k : k \in DOMAIN attrs)
    IN  [i \in 1..Len(keys) |-> <<keys[i], attrs[keys[i]]>>]

\* AttrDict.__hash__ (a hash is modelled by the tuple it is the hash of).
AttrDict_hash(self) == SortedItems(self.attrs)

\* AttrDict.__eq__, inherited by Action and State: the same class and the
\* same _attributes_. Action.name is not in _attributes_.
AttrDict_eq(self, other) ==
    /\ self.type = other.type
    /\ self.attrs = other.attrs

\* Action.__hash__: the name followed by the sorted attribute pairs.
Action_hash(self) == <<self.name>> \o SortedItems(self.attrs)

\* list.__contains__: some element is equal to x under __eq__.
PyIn(x, list) == \E i \in DOMAIN list : AttrDict_eq(x, list[i])

\* Membership by name and attributes (what a claim calls a legal action).
IsMember(x, list) == \E i \in DOMAIN list : list[i] = x

\* The names of the actions in a list.
Names(list) == {list[i].name : i \in DOMAIN list}

(***************************************************************************)
(* GridWorld.                                                              *)
(***************************************************************************)
\* GridWorld.__init__
GridWorld_init(width, height, start, goal) ==
    [width |-> width, height |-> height, start |-> start, goal |-> goal,
     row |-> start[1], col |-> start[2]]

\* get_state comparing the row alone with the goal.
GridWorld_get_state_rowOnly(self) ==
    IF self.row = self.goal[1]
    THEN PyNone
    ELSE State([row |-> self.row, col |-> self.col])

\* GridWorld.get_state
GridWorld_get_state(self) ==
    IF <<self.row, self.col>> = self.goal
    THEN PyNone
    ELSE State([row |-> self.row, col |-> self.col])

\* GridWorld.get_actions
GridWorld_get_actions(self) ==
    (IF self.row >= 0 THEN <<Action("up", NoAttrs)>> ELSE <<>>)
    \o (IF self.row < self.height - 1 THEN <<Action("down", NoAttrs)>> ELSE <<>>)
    \o (IF self.col >= 0 THEN <<Action("left", NoAttrs)>> ELSE <<>>)
    \o (IF self.col < self.width - 1 THEN <<Action("right", NoAttrs)>> ELSE <<>>)

\* GridWorld.new_episode
GridWorld_new_episode(self) ==
    [self EXCEPT !.row = self.start[1], !.col = self.start[2]]

(***************************************************************************)
(* Numbers: a Python float is an exact rational n/d in lowest terms.       *)
(***************************************************************************)
\* The element of a singleton set.
The(S) == CHOOSE x \in S : TRUE

Abs(i) == IF i < 0 THEN -i ELSE i

RECURSIVE GCD(_, _)
GCD(a, b) == IF b = 0 THEN a ELSE GCD(b, a % b)

Num(n, d) ==
    LET g == GCD(Abs(n), d)
    IN  [type |-> "number", n |-> n \div g, d |-> d \div g]

Zero == Num(0, 1)
One == Num(1, 1)

LCM(a, b) == (a \div GCD(a, b)) * b

NumAdd(p, q) ==
    LET l == LCM(p.d, q.d)
    IN  Num(p.n * (l \div p.d) + q.n * (l \div q.d), l)

NumSub(p, q) == NumAdd(p, Num(-q.n, q.d))

NumMul(p, q) ==
    LET a == Num(p.n, q.d)
        b == Num(q.n, p.d)
    IN  Num(a.n * b.n, a.d * b.d)

NumLess(p, q) ==
    LET l == LCM(p.d, q.d)
    IN  p.n * (l \div p.d) < q.n * (l \div q.d)

(***************************************************************************)
(* TMaze. An optional int (hint_pos_2, the redundant hints) is None or the *)
(* int in a box, and so is the content of a memory slot.                   *)
(***************************************************************************)
Box(v) == [type |-> "int", value |-> v]

\* a // b for b in {-1, 1}
FloorDiv(a, b) == IF b > 0 THEN a \div b ELSE (-a) \div (-b)

\* The assertions of TMaze.__init__ with hint_pos < length.
TMaze_init_asserts_strict(length, hint_pos, hint_pos_2, redundant) ==
    /\ 0 <= hint_pos /\ hint_pos < length
    /\ hint_pos_2 # PyNone
        => (0 <= hint_pos_2.value /\ hint_pos_2.value <= length)
    /\ redundant => (length >= 3 /\ hint_pos_2 # PyNone)

\* TMaze.__init__: all the assertions hold.
TMaze_init_asserts(length, hint_pos, hint_pos_2, redundant) ==
    /\ 0 <= hint_pos /\ hint_pos <= length
    /\ hint_pos_2 # PyNone
        => (0 <= hint_pos_2.value /\ hint_pos_2.value <= length)
    /\ redundant => (length >= 3 /\ hint_pos_2 # PyNone)

\* The random values of an episode: choice([-1, 1]) for goal_x and for
\* logical_connective.
Draws == {-1, 1} \X {-1, 1}
NoDraws == <<1, 1>>

\* The fields of an episode with the goal itself as the direction.
TMaze_episode_directionIsGoal(redundant, draws) ==
    LET goal_x == draws[1]
        logical_connective == draws[2]
        direction == goal_x
    IN  [x |-> 0, y |-> 0,
         goal_x |-> goal_x,
         logical_connective |-> logical_connective,
         direction |-> direction,
         redundant_connective |->
            IF redundant THEN Box(-1 * logical_connective) ELSE PyNone,
         redundant_direction |->
            IF redundant THEN Box(-1 * direction) ELSE PyNone]

\* TMaze.__init__ past the assertions, and TMaze.new_episode: the fields of
\* an episode for the drawn values.
TMaze_episode(redundant, draws) ==
    LET goal_x == draws[1]
        logical_connective == draws[2]
        direction == FloorDiv(goal_x, logical_connective)
    IN  [x |-> 0, y |-> 0,
         goal_x |-> goal_x,
         logical_connective |-> logical_connective,
         direction |-> direction,
         redundant_connective |->
            IF redundant THEN Box(-1 * logical_connective) ELSE PyNone,
         redundant_direction |->
            IF redundant THEN Box(-1 * direction) ELSE PyNone]

\* TMaze.__init__: an AssertionError, or the instance.
TMaze_init(length, hint_pos, hint_pos_2, redundant, draws) ==
    IF ~TMaze_init_asserts(length, hint_pos, hint_pos_2, redundant)
    THEN [raised |-> TRUE]
    ELSE [raised |-> FALSE,
          self |-> [length |-> length, hint_pos |-> hint_pos,
                    hint_pos_2 |-> hint_pos_2, redundant |-> redundant]
                   @@ TMaze_episode(redundant, draws)]

TMaze_State(self, symbol) ==
    State([x |-> self.x, y |-> self.y, symbol |-> symbol])

\* get_state that is terminal on the whole last row.
TMaze_get_state_lastRow(self) ==
    IF self.y = self.length THEN PyNone ELSE TMaze_State(self, 0)

\* TMaze.get_state
TMaze_get_state(self) ==
    IF self.y = self.length /\ self.x # 0 THEN PyNone
    ELSE IF self.hint_pos_2 = PyNone
    THEN IF self.y = self.hint_pos
         THEN TMaze_State(self, self.goal_x)
         ELSE TMaze_State(self, 0)
    ELSE IF self.redundant
    THEN CASE self.y = self.hint_pos ->
                TMaze_State(self, self.logical_connective)
           [] self.y # self.hint_pos /\ self.y = self.hint_pos_2.value ->
                TMaze_State(self, self.direction)
           [] self.y # self.hint_pos /\ self.y # self.hint_pos_2.value
              /\ self.y = self.hint_pos - 2 ->
                TMaze_State(self, self.redundant_connective.value)
           [] self.y # self.hint_pos /\ self.y # self.hint_pos_2.value
              /\ self.y # self.hint_pos - 2
              /\ self.y = self.hint_pos_2.value - 2 ->
                TMaze_State(self, self.redundant_direction.value)
           [] OTHER -> TMaze_State(self, 0)
    ELSE CASE self.y = self.hint_pos ->
                TMaze_State(self, self.logical_connective)
           [] self.y # self.hint_pos /\ self.y = self.hint_pos_2.value ->
                TMaze_State(self, self.direction)
           [] OTHER -> TMaze_State(self, 0)

\* get_actions that offers nothing at the junction.
TMaze_get_actions_noneAtJunction(self) ==
    IF self.x = 0
    THEN IF self.y < self.length THEN <<Action("up", NoAttrs)>>
         ELSE <<>>
    ELSE <<Action("halt", NoAttrs)>>

\* get_actions that offers up at the junction too.
TMaze_get_actions_upAtJunction(self) ==
    IF self.x = 0
    THEN IF self.y <= self.length THEN <<Action("up", NoAttrs)>>
         ELSE <<>>
    ELSE <<Action("halt", NoAttrs)>>

\* TMaze.get_actions
TMaze_get_actions(self) ==
    IF self.x = 0
    THEN IF self.y < self.length THEN <<Action("up", NoAttrs)>>
         ELSE IF self.y = self.length
         THEN <<Action("left", NoAttrs), Action("right", NoAttrs)>>
         ELSE <<>>
    ELSE <<Action("halt", NoAttrs)>>

\* TMaze.new_episode
TMaze_new_episode(self, draws) ==
    [k \in DOMAIN self |->
        IF k \in DOMAIN TMaze_episode(self.redundant, draws)
        THEN TMaze_episode(self.redundant, draws)[k]
        ELSE self[k]]

(***************************************************************************)
(* gating_memory(cls, reward, num_memory_slots), and the calls the classes *)
(* make on self. An instance of the wrapper has the fields of cls and      *)
(* reward, num_memory_slots and memories; a call on self made in cls runs  *)
(* the wrapper's method, and super() in the wrapper runs the method of     *)
(* cls.                                                                    *)
(***************************************************************************)
IsGated(self) == "memories" \in DOMAIN self
IsGridWorld(self) == "row" \in DOMAIN self

\* 'memory_{}'.format(i)
MemoryKey(i) == "memory_" \o ToString(i)

\* key.startswith('memory_'), for the keys the environments use
IsMemoryKey(key) == key \in {MemoryKey(i) : i \in 0..MaxSlots}

\* The keys in the order in which they are inserted in an AttrDict: the
\* memories first, then the keyword arguments of State(...) as written.
InsertionOrder ==
    [i \in 1..(MaxSlots + 1) |-> MemoryKey(i - 1)]
    \o <<"row", "col", "x", "y", "symbol">>

\* The keys of an AttrDict in iteration order.
Keys(attrdict) ==
    SelectSeq(InsertionOrder, LAMBDA k : k \in DOMAIN attrdict.attrs)

\* num_memory_slots * [None]
NoMemories(num_memory_slots) == [i \in 1..num_memory_slots |-> PyNone]

\* super().get_state()
Super_get_state(self) ==
    IF IsGridWorld(self) THEN GridWorld_get_state(self)
    ELSE TMaze_get_state(self)

\* The same body showing the first slot under every memory key.
Gating_with_memories_firstSlot(self, state) ==
    IF state = PyNone THEN PyNone
    ELSE LET kept == {k \in DOMAIN state.attrs : ~IsMemoryKey(k)}
             memories == [k \in {MemoryKey(i) :
                                    i \in 0..(self.num_memory_slots - 1)} |->
                            self.memories[1]]
         IN  [type |-> "AttrDict",
              attrs |-> memories @@ [k \in kept |-> state.attrs[k]]]

\* The body shared by get_state and get_observation of the wrapper: the
\* keys that start with memory_ are deleted, and the memories are put first.
Gating_with_memories(self, state) ==
    IF state = PyNone THEN PyNone
    ELSE LET kept == {k \in DOMAIN state.attrs : ~IsMemoryKey(k)}
             memories == [k \in {MemoryKey(i) :
                                    i \in 0..(self.num_memory_slots - 1)} |->
                            self.memories[
                                (CHOOSE i \in 0..(self.num_memory_slots - 1) :
                                    MemoryKey(i) = k) + 1]]
         IN  [type |-> "AttrDict",
              attrs |-> memories @@ [k \in kept |-> state.attrs[k]]]

\* GatingMemoryMetaEnvironment.get_state
Gating_get_state(self) == Gating_with_memories(self, Super_get_state(self))

\* self.get_state()
Self_get_state(self) ==
    IF IsGated(self) THEN Gating_get_state(self) ELSE Super_get_state(self)

\* GridWorld.get_observation: self.get_state()
GridWorld_get_observation(self) == Self_get_state(self)

\* TMaze.get_observation: self.get_state()
TMaze_get_observation(self) == Self_get_state(self)

\* super().get_observation()
Super_get_observation(self) ==
    IF IsGridWorld(self) THEN GridWorld_get_observation(self)
    ELSE TMaze_get_observation(self)

\* GatingMemoryMetaEnvironment.get_observation
Gating_get_observation(self) ==
    Gating_with_memories(self, Super_get_observation(self))

\* self.get_observation()
Self_get_observation(self) ==
    IF IsGated(self) THEN Gating_get_observation(self)
    ELSE Super_get_observation(self)

\* super().get_actions()
Super_get_actions(self) ==
    IF IsGridWorld(self) THEN GridWorld_get_actions(self)
    ELSE TMaze_get_actions(self)

\* GatingMemoryMetaEnvironment.get_actions: a gate action for each slot and
\* each key of super().get_observation() other than 'memory'.
Gating_get_actions(self) ==
    LET actions == Super_get_actions(self)
        observations == Super_get_observation(self)
    IN  IF observations = PyNone THEN actions
        ELSE LET keys == SelectSeq(Keys(observations),
                                   LAMBDA k : k # "memory")
                 n == Len(keys)
             IN  actions \o
                 [j \in 1..(self.num_memory_slots * n) |->
                    Action("gate", [slot |-> (j - 1) \div n,
                                    attribute |-> keys[((j - 1) % n) + 1]])]

\* self.get_actions()
Self_get_actions(self) ==
    IF IsGated(self) THEN Gating_get_actions(self)
    ELSE Super_get_actions(self)

Max(a, b) == IF a >= b THEN a ELSE b
Min(a, b) == IF a <= b THEN a ELSE b

\* react that moves without max and min.
GridWorld_react_unclamped(self, action) ==
    IF ~PyIn(action, Self_get_actions(self))
    THEN [raised |-> TRUE, reward |-> 0, self |-> self]
    ELSE IF <<self.row, self.col>> = self.goal
    THEN [raised |-> FALSE, reward |-> 1, self |-> self]
    ELSE [raised |-> FALSE, reward |-> -1, self |->
            CASE action.name = "up" -> [self EXCEPT !.row = self.row - 1]
              [] action.name = "down" -> [self EXCEPT !.row = self.row + 1]
              [] action.name = "left" -> [self EXCEPT !.col = self.col - 1]
              [] action.name = "right" -> [self EXCEPT !.col = self.col + 1]
              [] OTHER -> self]

\* react paying +1 on the move that arrives at the goal.
GridWorld_react_rewardOnArrival(self, action) ==
    IF ~PyIn(action, Self_get_actions(self))
    THEN [raised |-> TRUE, reward |-> 0, self |-> self]
    ELSE LET moved ==
                CASE action.name = "up" ->
                        [self EXCEPT !.row = Max(0, self.row - 1)]
                  [] action.name = "down" ->
                        [self EXCEPT !.row = Min(self.height - 1, self.row + 1)]
                  [] action.name = "left" ->
                        [self EXCEPT !.col = Max(0, self.col - 1)]
                  [] action.name = "right" ->
                        [self EXCEPT !.col = Min(self.width - 1, self.col + 1)]
                  [] OTHER -> self
         IN  [raised |-> FALSE,
              reward |-> IF <<moved.row, moved.col>> = self.goal
                         THEN 1 ELSE -1,
              self |-> moved]

\* GridWorld.react: the outcome of the call, as the exception flag, the
\* returned reward (0 when the assertion raised) and the instance afterwards.
GridWorld_react(self, action) ==
    IF ~PyIn(action, Self_get_actions(self))
    THEN [raised |-> TRUE, reward |-> 0, self |-> self]
    ELSE IF <<self.row, self.col>> = self.goal
    THEN [raised |-> FALSE, reward |-> 1, self |-> self]
    ELSE [raised |-> FALSE, reward |-> -1, self |->
            CASE action.name = "up" ->
                    [self EXCEPT !.row = Max(0, self.row - 1)]
              [] action.name = "down" ->
                    [self EXCEPT !.row = Min(self.height - 1, self.row + 1)]
              [] action.name = "left" ->
                    [self EXCEPT !.col = Max(0, self.col - 1)]
              [] action.name = "right" ->
                    [self EXCEPT !.col = Min(self.width - 1, self.col + 1)]
              [] OTHER -> self]

\* react that does not move to the left or to the right.
TMaze_react_staysAtJunction(self, action) ==
    IF ~PyIn(action, Self_get_actions(self))
    THEN [raised |-> TRUE, reward |-> Zero, self |-> self]
    ELSE LET moved ==
                CASE action.name = "up" -> [self EXCEPT !.y = self.y + 1]
                  [] OTHER -> self
         IN  [raised |-> FALSE,
              reward |->
                IF moved.y = moved.length
                THEN IF moved.x = moved.goal_x THEN Num(10, 1)
                     ELSE IF moved.x = -moved.goal_x THEN Num(-10, 1)
                     ELSE Num(-1, 1)
                ELSE IF action.name = "gate" THEN Num(-1, 20)
                ELSE Num(-1, 1),
              self |-> moved]

\* react with the rewards of the two sides exchanged.
TMaze_react_sidesExchanged(self, action) ==
    IF ~PyIn(action, Self_get_actions(self))
    THEN [raised |-> TRUE, reward |-> Zero, self |-> self]
    ELSE LET moved ==
                CASE action.name = "up" -> [self EXCEPT !.y = self.y + 1]
                  [] action.name = "right" -> [self EXCEPT !.x = self.x + 1]
                  [] action.name = "left" -> [self EXCEPT !.x = self.x - 1]
                  [] OTHER -> self
         IN  [raised |-> FALSE,
              reward |->
                IF moved.y = moved.length
                THEN IF moved.x = moved.goal_x THEN Num(-10, 1)
                     ELSE IF moved.x = -moved.goal_x THEN Num(10, 1)
                     ELSE Num(-1, 1)
                ELSE IF action.name = "gate" THEN Num(-1, 20)
                ELSE Num(-1, 1),
              self |-> moved]

\* TMaze.react: the outcome of the call, as the exception flag, the
\* returned reward (0 when the assertion raised) and the instance afterwards.
TMaze_react(self, action) ==
    IF ~PyIn(action, Self_get_actions(self))
    THEN [raised |-> TRUE, reward |-> Zero, self |-> self]
    ELSE LET moved ==
                CASE action.name = "up" -> [self EXCEPT !.y = self.y + 1]
                  [] action.name = "right" -> [self EXCEPT !.x = self.x + 1]
                  [] action.name = "left" -> [self EXCEPT !.x = self.x - 1]
                  [] OTHER -> self
         IN  [raised |-> FALSE,
              reward |->
                IF moved.y = moved.length
                THEN IF moved.x = moved.goal_x THEN Num(10, 1)
                     ELSE IF moved.x = -moved.goal_x THEN Num(-10, 1)
                     ELSE Num(-1, 1)
                ELSE IF action.name = "gate" THEN Num(-1, 20)
                ELSE Num(-1, 1),
              self |-> moved]

\* super().react(action)
Super_react(self, action) ==
    IF IsGridWorld(self) THEN GridWorld_react(self, action)
    ELSE TMaze_react(self, action)

\* react of the wrapper storing every gated value in slot 0.
Gating_react_slotZero(self, action) ==
    IF action.name = "gate"
    THEN LET observation == Super_get_observation(self)
         IN  IF \/ observation = PyNone
                \/ ~({"slot", "attribute"} \subseteq DOMAIN action.attrs)
             THEN [raised |-> TRUE, reward |-> Zero, self |-> self]
             ELSE IF \/ action.attrs.attribute \notin DOMAIN observation.attrs
                     \/ action.attrs.slot >= self.num_memory_slots
                     \/ action.attrs.slot < -self.num_memory_slots
             THEN [raised |-> TRUE, reward |-> Zero, self |-> self]
             ELSE LET value == observation.attrs[action.attrs.attribute]
                  IN  [raised |-> FALSE, reward |-> self.reward,
                       self |-> [self EXCEPT !.memories[1] =
                            IF IsMemoryKey(action.attrs.attribute)
                            THEN value ELSE Box(value)]]
    ELSE Super_react(self, action)

\* GatingMemoryMetaEnvironment.react. The right-hand side of the assignment
\* is evaluated first: getattr raises AttributeError on None and on a
\* missing attribute, as do action.attribute and action.slot; the
\* subscript raises IndexError outside -k..k-1 and counts a negative slot
\* from the end.
Gating_react(self, action) ==
    IF action.name = "gate"
    THEN LET observation == Super_get_observation(self)
         IN  IF \/ observation = PyNone
                \/ ~({"slot", "attribute"} \subseteq DOMAIN action.attrs)
             THEN [raised |-> TRUE, reward |-> Zero, self |-> self]
             ELSE IF \/ action.attrs.attribute \notin DOMAIN observation.attrs
                     \/ action.attrs.slot >= self.num_memory_slots
                     \/ action.attrs.slot < -self.num_memory_slots
             THEN [raised |-> TRUE, reward |-> Zero, self |-> self]
             ELSE LET value == observation.attrs[action.attrs.attribute]
                      index == (action.attrs.slot % self.num_memory_slots) + 1
                  IN  [raised |-> FALSE, reward |-> self.reward,
                       self |-> [self EXCEPT !.memories[index] =
                            IF IsMemoryKey(action.attrs.attribute)
                            THEN value ELSE Box(value)]]
    ELSE Super_react(self, action)

\* self.react(action)
Self_react(self, action) ==
    IF IsGated(self) THEN Gating_react(self, action)
    ELSE Super_react(self, action)

\* super().new_episode(), with the values the random draws give
Super_new_episode(self, draws) ==
    IF IsGridWorld(self) THEN GridWorld_new_episode(self)
    ELSE TMaze_new_episode(self, draws)

\* new_episode of the wrapper that keeps the memories.
Gating_new_episode_keepsMemories(self, draws) ==
    Super_new_episode(self, draws)

\* GatingMemoryMetaEnvironment.new_episode
Gating_new_episode(self, draws) ==
    [Super_new_episode(self, draws) EXCEPT
        !.memories = NoMemories(self.num_memory_slots)]

\* self.new_episode()
Self_new_episode(self, draws) ==
    IF IsGated(self) THEN Gating_new_episode(self, draws)
    ELSE Super_new_episode(self, draws)

\* GridWorld.reset: self.new_episode()
GridWorld_reset(self) == Self_new_episode(self, NoDraws)

\* TMaze.reset: self.new_episode()
TMaze_reset(self, draws) == Self_new_episode(self, draws)

\* super().reset()
Super_reset(self, draws) ==
    IF IsGridWorld(self) THEN GridWorld_reset(self)
    ELSE TMaze_reset(self, draws)

\* GatingMemoryMetaEnvironment.reset
Gating_reset(self, draws) ==
    [Super_reset(self, draws) EXCEPT
        !.memories = NoMemories(self.num_memory_slots)]

\* self.reset()
Self_reset(self, draws) ==
    IF IsGated(self) THEN Gating_reset(self, draws)
    ELSE Super_reset(self, draws)

\* GatingMemoryMetaEnvironment.__init__ after super().__init__ made base.
Gating_init(base, reward, num_memory_slots) ==
    base @@ [reward |-> reward,
             num_memory_slots |-> num_memory_slots,
             memories |-> NoMemories(num_memory_slots)]

(***************************************************************************)
(* TabularQLearningAgent.                                                  *)
(*                                                                         *)
(* value_function is a defaultdict of defaultdict(float): here a function  *)
(* from the observations that are keys to the inner dict, and an inner     *)
(* dict is the sequence of its (action, value) items in insertion order.   *)
(* State.__hash__ and State.__eq__ agree on type and attributes, so the    *)
(* outer keys are compared with =.                                         *)
(***************************************************************************)
\* hash(key) of an inner-dict key.
Key_hash(key) ==
    IF key.type = "Action" THEN Action_hash(key) ELSE <<key.type>>

\* Two keys fall on the same dict entry: equal hashes and __eq__.
SameKey(a, b) ==
    /\ Key_hash(a) = Key_hash(b)
    /\ IF a.type = "Action" THEN AttrDict_eq(a, b) ELSE a = b

\* `key in dict`
DictHas(dict, key) == \E i \in DOMAIN dict : SameKey(dict[i].action, key)

\* dict[key] of a key that is in the dict
DictGet(dict, key) ==
    dict[CHOOSE i \in DOMAIN dict : SameKey(dict[i].action, key)].value

\* dict[key] = value
DictSet(dict, key, value) ==
    IF DictHas(dict, key)
    THEN [i \in DOMAIN dict |->
            IF SameKey(dict[i].action, key)
            THEN [action |-> dict[i].action, value |-> value]
            ELSE dict[i]]
    ELSE Append(dict, [action |-> key, value |-> value])

\* value_function[observation], which makes an empty inner dict for a new key
Inner(value_function, observation) ==
    IF observation \in DOMAIN value_function
    THEN value_function[observation]
    ELSE <<>>

\* value_function with value_function[observation] bound to dict
WithInner(value_function, observation, dict) ==
    [o \in DOMAIN value_function \cup {observation} |->
        IF o = observation THEN dict ELSE value_function[o]]

\* TabularQLearningAgent.__init__
TabularQLearningAgent_init(alpha, gamma) ==
    [value_function |-> <<>>,
     learning_rate |-> alpha,
     discount_rate |-> gamma,
     prev_observation |-> PyNone,
     prev_action |-> PyNone]

\* get_value whose inner dicts default to 1 (optimistic initial values).
TabularQLearningAgent_get_value_optimistic(self, observation, action) ==
    IF observation \notin DOMAIN self.value_function
    THEN [value |-> Zero, self |-> self]
    ELSE IF DictHas(self.value_function[observation], action)
    THEN [value |-> DictGet(self.value_function[observation], action),
          self |-> self]
    ELSE [value |-> One,
          self |-> [self EXCEPT !.value_function[observation] =
                        Append(@, [action |-> action, value |-> One])]]

\* TabularQLearningAgent.get_value: the returned value and the instance
\* afterwards. Reading an inner defaultdict(float) at a missing key stores
\* float() = 0.0 under that key.
TabularQLearningAgent_get_value(self, observation, action) ==
    IF observation \notin DOMAIN self.value_function
    THEN [value |-> Zero, self |-> self]
    ELSE IF DictHas(self.value_function[observation], action)
    THEN [value |-> DictGet(self.value_function[observation], action),
          self |-> self]
    ELSE [value |-> Zero,
          self |-> [self EXCEPT !.value_function[observation] =
                        Append(@, [action |-> action, value |-> Zero])]]

\* TabularQLearningAgent.get_valued_actions: the keys in insertion order.
TabularQLearningAgent_get_valued_actions(self, observation) ==
    IF observation \notin DOMAIN self.value_function
    THEN <<>>
    ELSE [i \in DOMAIN self.value_function[observation] |->
            self.value_function[observation][i].action]

\* get_best_action returning the first valued action.
Agent_get_best_action_first(self, observation) ==
    LET actions == TabularQLearningAgent_get_valued_actions(self, observation)
    IN  IF actions = <<>> THEN PyNone ELSE actions[1]

\* Agent.get_best_action: None without valued actions, else max() by value,
\* which returns the first of the maximal items. The actions are keys, so
\* get_value stores nothing while max() runs.
Agent_get_best_action(self, observation) ==
    LET actions == TabularQLearningAgent_get_valued_actions(self, observation)
        value(i) ==
            TabularQLearningAgent_get_value(self, observation, actions[i]).value
    IN  IF actions = <<>>
        THEN PyNone
        ELSE actions[CHOOSE i \in DOMAIN actions :
                        /\ \A j \in DOMAIN actions : ~NumLess(value(i), value(j))
                        /\ \A j \in 1..(i - 1) : NumLess(value(j), value(i))]

\* Agent.get_best_value
Agent_get_best_value(self, observation) ==
    TabularQLearningAgent_get_value(self, observation,
        Agent_get_best_action(self, observation))

\* TabularQLearningAgent._observe_reward: the instance afterwards. Each
\* intermediate result is bound to its value once, in statement order.
TabularQLearningAgent_observe_reward(self, observation, reward) ==
    The({The({
        LET next_value ==
                NumAdd(reward, NumMul(self.discount_rate, best.value))
            new_value ==
                NumAdd(NumMul(NumSub(One, self.learning_rate), prev.value),
                       NumMul(self.learning_rate, next_value))
        IN  [best.self EXCEPT !.value_function =
                WithInner(best.self.value_function, self.prev_observation,
                    DictSet(Inner(best.self.value_function,
                                  self.prev_observation),
                            self.prev_action, new_value))]
        : best \in {Agent_get_best_value(prev.self, observation)}})
        : prev \in {TabularQLearningAgent_get_value(
                        self, self.prev_observation, self.prev_action)}})

\* force_act that updates whenever a reward is given.
TabularQLearningAgent_force_act_anyReward(self, observation, action, reward) ==
    LET updated == reward # PyNone
        learned == IF updated
                   THEN TabularQLearningAgent_observe_reward(
                            self, observation, reward)
                   ELSE self
    IN  [ret |-> action,
         updated |-> updated,
         self |-> [learned EXCEPT
                    !.prev_observation = observation,
                    !.prev_action =
                        IF observation = PyNone THEN PyNone ELSE action]]

\* force_act that keeps the observation it recorded before.
TabularQLearningAgent_force_act_keepsObservation(self, observation, action, reward) ==
    LET updated == self.prev_action # PyNone /\ reward # PyNone
        learned == IF updated
                   THEN TabularQLearningAgent_observe_reward(
                            self, observation, reward)
                   ELSE self
    IN  [ret |-> action,
         updated |-> updated,
         self |-> [learned EXCEPT
                    !.prev_action =
                        IF observation = PyNone THEN PyNone ELSE action]]

\* force_act that records the action at a terminal observation too.
TabularQLearningAgent_force_act_keepsAction(self, observation, action, reward) ==
    LET updated == self.prev_action # PyNone /\ reward # PyNone
        learned == IF updated
                   THEN TabularQLearningAgent_observe_reward(
                            self, observation, reward)
                   ELSE self
    IN  [ret |-> action,
         updated |-> updated,
         self |-> [learned EXCEPT
                    !.prev_observation = observation,
                    !.prev_action = action]]

\* TabularQLearningAgent.force_act: the returned action, whether the update
\* step ran, and the instance afterwards.
TabularQLearningAgent_force_act(self, observation, action, reward) ==
    LET updated == self.prev_action # PyNone /\ reward # PyNone
        learned == IF updated
                   THEN TabularQLearningAgent_observe_reward(
                            self, observation, reward)
                   ELSE self
    IN  [ret |-> action,
         updated |-> updated,
         self |-> [learned EXCEPT
                    !.prev_observation = observation,
                    !.prev_action =
                        IF observation = PyNone THEN PyNone ELSE action]]

\* act returning the action it returned last, when there is one.
TabularQLearningAgent_act_choices_prevAction(self, observation, actions) ==
    IF self.prev_action # PyNone
    THEN {self.prev_action}
    ELSE {actions[i] : i \in DOMAIN actions}

\* TabularQLearningAgent.act, up to force_act: the actions best_action can
\* be. choice(actions) draws any element, and raises on an empty list (the
\* empty set here).
TabularQLearningAgent_act_choices(self, observation, actions) ==
    LET best_action == Agent_get_best_action(self, observation)
    IN  IF best_action = PyNone
        THEN {actions[i] : i \in DOMAIN actions}
        ELSE {best_action}

\* TabularQLearningAgent.act: the possible outcomes of the call, one for
\* each action choice() can draw; an IndexError when it draws from no action.
TabularQLearningAgent_act(self, observation, actions, reward) ==
    LET choices == TabularQLearningAgent_act_choices(self, observation, actions)
    IN  IF choices = {}
        THEN {[raised |-> TRUE, ret |-> PyNone, updated |-> FALSE,
               self |-> self]}
        ELSE {[raised |-> FALSE] @@
              TabularQLearningAgent_force_act(self, observation, c, reward) :
                c \in choices}

(***************************************************************************)
(* epsilon_greedy(TabularQLearningAgent, epsilon): the instance has the    *)
(* fields of the wrapped class and epsilon.                                *)
(***************************************************************************)
\* EpsilonGreedyMetaAgent.__init__
EpsilonGreedyMetaAgent_init(alpha, gamma, epsilon) ==
    TabularQLearningAgent_init(alpha, gamma) @@ [epsilon |-> epsilon]

\* The test of act with <= for <.
EpsilonGreedyMetaAgent_explores_orEqual(self, draw) ==
    ~NumLess(self.epsilon, draw)

\* EpsilonGreedyMetaAgent.act, the test `random() < self.epsilon` for the
\* value draw of random().
EpsilonGreedyMetaAgent_explores(self, draw) == NumLess(draw, self.epsilon)

\* act whose exploring branch gives no reward to force_act.
EpsilonGreedyMetaAgent_act_exploreDropsReward(self, observation, actions, reward, draw) ==
    IF EpsilonGreedyMetaAgent_explores(self, draw)
    THEN IF actions = <<>>
         THEN {[branch |-> "force_act", raised |-> TRUE, ret |-> PyNone,
                updated |-> FALSE, self |-> self]}
         ELSE {[branch |-> "force_act", raised |-> FALSE] @@
               TabularQLearningAgent_force_act(
                    self, observation, actions[i], PyNone) :
                i \in DOMAIN actions}
    ELSE {[branch |-> "act"] @@ r :
            r \in TabularQLearningAgent_act(self, observation, actions, reward)}

\* EpsilonGreedyMetaAgent.act: the possible outcomes for the value draw of
\* random(), with the method of the wrapped class that was called.
EpsilonGreedyMetaAgent_act(self, observation, actions, reward, draw) ==
    IF EpsilonGreedyMetaAgent_explores(self, draw)
    THEN IF actions = <<>>
         THEN {[branch |-> "force_act", raised |-> TRUE, ret |-> PyNone,
                updated |-> FALSE, self |-> self]}
         ELSE {[branch |-> "force_act", raised |-> FALSE] @@
               TabularQLearningAgent_force_act(
                    self, observation, actions[i], reward) :
                i \in DOMAIN actions}
    ELSE {[branch |-> "act"] @@ r :
            r \in TabularQLearningAgent_act(self, observation, actions, reward)}

(***************************************************************************)
(* Inputs.                                                                 *)
(***************************************************************************)
\* The keyword arguments of a gate action of the memory wrapper.
GateAttrs ==
    {[slot |-> s, attribute |-> a] : s \in 0..(MaxSlots - 1), a \in {"row", "col"}}

\* The actions a caller may pass to react: the four moves, the actions of
\* the other environments, and a gate action of the memory wrapper.
ActionInputs ==
    {Action(n, NoAttrs) : n \in {"up", "down", "left", "right", "halt"}}
    \cup {Action("gate", [slot |-> 0, attribute |-> "row"])}

\* The Action values that are compared and hashed.
ActionValues ==
    {Action(n, k) : n \in {"up", "down", "gate"}, k \in {NoAttrs} \cup GateAttrs}

Cells(width, height) == (0..(height - 1)) \X (0..(width - 1))

\* What the agent is given: observations, actions, action lists, rewards
\* (None for no reward) and the learning parameters.
ObsInputs == {PyNone} \cup {State([row |-> 0, col |-> c]) : c \in 0..1}
AgentActions == {Action("up", NoAttrs), Action("right", NoAttrs)}
ActionLists ==
    {<<Action("up", NoAttrs), Action("right", NoAttrs)>>,
     <<Action("right", NoAttrs)>>,
     <<>>}
RewardInputs == {PyNone, Num(-1, 1), Num(10, 1)}
Alphas == {Num(1, 2), One}
Gammas == {Num(9, 10)}

\* The values of epsilon, and the values random() returns: it draws from
\* the half-open interval [0.0, 1.0).
Epsilons == {Zero, Num(1, 2), One}
RandomDraws == {Zero, Num(1, 2), Num(99, 100)}

(***************************************************************************)
(* run_interactive_episode(env, agent, num_episodes).                      *)
(***************************************************************************)
\* TMaze.visualize raises IndexError when a subscript falls outside the
\* length + 1 lines.
TMaze_visualize_raises(self) ==
    LET inRange(i) == -(self.length + 1) <= i /\ i <= self.length
    IN  ~ /\ inRange(self.length - self.y)
          /\ inRange(self.length - self.hint_pos)
          /\ self.hint_pos_2 # PyNone
                => inRange(self.length - self.hint_pos_2.value)

\* env.visualize() raises: GridWorld inherits Environment.visualize, which
\* raises NotImplementedError.
Self_visualize_raises(self) ==
    IF IsGridWorld(self) THEN TRUE ELSE TMaze_visualize_raises(self)

\* The agent is an instance of the epsilon-greedy class.
IsEpsilonGreedy(self) == "epsilon" \in DOMAIN self

\* agent.act(observation, actions, reward): the possible outcomes.
Self_act(self, observation, actions, reward) ==
    IF IsEpsilonGreedy(self)
    THEN UNION {EpsilonGreedyMetaAgent_act(self, observation, actions,
                                           reward, draw) :
                    draw \in RandomDraws}
    ELSE {[branch |-> "act"] @@ r :
            r \in TabularQLearningAgent_act(self, observation, actions,
                                            reward)}

\* The locals before the first episode, with the calls of the episode (log)
\* and the number of passes of the while loop so far (passes).
Run_init(num_episodes) ==
    [pc |-> "for", num_episodes |-> num_episodes, episode |-> 0,
     reward |-> PyNone, obs |-> PyNone, step |-> 0, log |-> <<>>,
     passes |-> 0]

\* The start of an episode that keeps the reward of the one before.
Run_new_episode_keepsReward(locals, obs) ==
    [locals EXCEPT !.pc = "while", !.step = 0, !.obs = obs,
        !.log = <<[op |-> "new_episode"],
                  [op |-> "get_observation", result |-> obs]>>]

\* The start of an episode, after env.new_episode(): reward = None,
\* step = 0 and obs = env.get_observation().
Run_new_episode(locals, obs) ==
    [locals EXCEPT !.pc = "while", !.reward = PyNone, !.step = 0,
        !.obs = obs,
        !.log = <<[op |-> "new_episode"],
                  [op |-> "get_observation", result |-> obs]>>]

\* The record of the call agent.act(obs, actions, reward) with outcome a.
ActCall(locals, actions, a) ==
    [op |-> "act", observation |-> locals.obs, actions |-> actions,
     reward |-> locals.reward, raised |-> a.raised, ret |-> a.ret]

\* The record of the call env.react(action) with outcome r.
ReactCall(action, r) ==
    [op |-> "react", action |-> action, raised |-> r.raised,
     reward |-> r.reward]

(***************************************************************************)
(* pspace_run: get_parameters and cluster_run. A parameter space is the    *)
(* list of its parameter sets, each named by its index; num_cores and core *)
(* are None or an int in a box.                                            *)
(***************************************************************************)
\* list[start:end]
PySlice(list, start, end) ==
    LET index(i) == IF i < 0 THEN Max(0, i + Len(list))
                    ELSE Min(i, Len(list))
    IN  IF index(start) < index(end)
        THEN SubSeq(list, index(start) + 1, index(end))
        ELSE <<>>

\* a // b and a % b, for b other than 0
PyFloorDiv(a, b) == IF b > 0 THEN a \div b ELSE (-a) \div (-b)
PyMod(a, b) == a - b * PyFloorDiv(a, b)

\* get_parameters without the remainders.
get_parameters_noRemainders(pspace, num_cores, core) ==
    IF num_cores = 0
    THEN [raised |-> TRUE, ret |-> <<>>]
    ELSE LET parameters == pspace
             chunk_size == PyFloorDiv(Len(parameters), num_cores)
             start == chunk_size * core
             end == chunk_size * (core + 1)
         IN  [raised |-> FALSE, ret |-> PySlice(parameters, start, end)]

\* get_parameters: ZeroDivisionError, or the slice.
get_parameters(pspace, num_cores, core) ==
    IF num_cores = 0
    THEN [raised |-> TRUE, ret |-> <<>>]
    ELSE LET parameters == pspace
             chunk_size == PyFloorDiv(Len(parameters), num_cores)
             remainders == PyMod(Len(parameters), num_cores)
             start == chunk_size * core + Min(core, remainders)
             end == chunk_size * (core + 1) + Min(core + 1, remainders)
         IN  [raised |-> FALSE, ret |-> PySlice(parameters, start, end)]

\* run_serial: experiment_fn runs on every parameter set.
run_serial(pspace) ==
    [branch |-> "run_serial", exit |-> PyNone, ran |-> pspace]

\* generate_jobs: the jobs are submitted for the cores
\* range(min(len(pspace), num_cores)); no experiment runs.
generate_jobs(pspace, num_cores) ==
    [branch |-> "generate_jobs", exit |-> PyNone, ran |-> <<>>,
     cores |-> [i \in 1..Min(Len(pspace), num_cores) |-> i - 1]]

\* run_job: experiment_fn runs on the parameter sets of the core.
run_job(pspace, num_cores, core) ==
    [branch |-> "run_job", exit |-> PyNone,
     ran |-> get_parameters(pspace, num_cores, core).ret]

\* cluster_run: the branch taken, the exit status when it exits and the
\* parameter sets that experiment_fn ran on.
cluster_run(pspace, num_cores, core) ==
    IF num_cores = PyNone THEN run_serial(pspace)
    ELSE IF num_cores.value <= 0 THEN run_serial(pspace)
    ELSE IF core = PyNone THEN generate_jobs(pspace, num_cores.value)
    ELSE IF ~(0 <= core.value /\ core.value <= num_cores.value)
    THEN [branch |-> "exit", exit |-> Box(1), ran |-> <<>>]
    ELSE run_job(pspace, num_cores.value, core.value)

(***************************************************************************)
(* The state of the components a specification leaves alone.               *)
(***************************************************************************)
EnvIdle ==
    /\ gridworld = GridWorld_init(1, 1, <<0, 0>>, <<0, 0>>)
    /\ history = <<>>

ValueIdle ==
    /\ operands = <<Action("up", NoAttrs), Action("up", NoAttrs)>>
    /\ compared = [done |-> FALSE]

AgentIdle ==
    /\ agent = TabularQLearningAgent_init(Num(1, 2), Num(9, 10))
    /\ called = [op |-> "__init__"]
    /\ written = {}
    /\ calls = 0

MazeIdle ==
    /\ env = PyNone
    /\ last = [op |-> "idle"]
    /\ steps = 0
    /\ legal = TRUE

RunIdle ==
    /\ run = [pc |-> "idle"]
    /\ job = [op |-> "idle"]

(***************************************************************************)
(* Action values: construction, == and hash().                             *)
(***************************************************************************)
ValueInit ==
    /\ operands \in ActionValues \X ActionValues
    /\ compared = [done |-> FALSE]
    /\ EnvIdle /\ AgentIdle /\ MazeIdle /\ RunIdle

\* a = Action(...); b = Action(...)
ValueConstruct ==
    /\ operands' \in ActionValues \X ActionValues
    /\ compared' = [done |-> FALSE]
    /\ UNCHANGED <<envVars, agentVars, mazeVars, runVars>>

\* a == b, hash(a), hash(b)
ValueCompare ==
    /\ ~compared.done
    /\ compared' = [done |-> TRUE,
                    eq |-> AttrDict_eq(operands[1], operands[2]),
                    hashes |-> <<Action_hash(operands[1]),
                                 Action_hash(operands[2])>>]
    /\ UNCHANGED <<operands, envVars, agentVars, mazeVars, runVars>>

ValueNext == ValueConstruct \/ ValueCompare

SpecValues == ValueInit /\ [][ValueNext]_vars

(***************************************************************************)
(* One GridWorld under new_episode, reset and react.                       *)
(***************************************************************************)
GridInit ==
    /\ \E width \in 1..MaxDim, height \in 1..MaxDim :
         \E start \in Cells(width, height), goal \in Cells(width, height) :
            gridworld = GridWorld_init(width, height, start, goal)
    /\ history = <<>>
    /\ ValueIdle /\ AgentIdle /\ MazeIdle /\ RunIdle

\* env.new_episode()
GridNewEpisode ==
    /\ gridworld' = GridWorld_new_episode(gridworld)
    /\ history' = <<[op |-> "new_episode"]>>
    /\ UNCHANGED <<valueVars, agentVars, mazeVars, runVars>>

\* env.reset()
GridReset ==
    /\ gridworld' = GridWorld_reset(gridworld)
    /\ history' = <<[op |-> "reset"]>>
    /\ UNCHANGED <<valueVars, agentVars, mazeVars, runVars>>

\* env.react(action)
GridReact ==
    /\ Len(SelectSeq(history, LAMBDA c : c.op = "react")) < MaxTrace
    /\ \E action \in ActionInputs :
         LET r == GridWorld_react(gridworld, action)
         IN  /\ gridworld' = r.self
             /\ history' = Append(history,
                    [op |-> "react", action |-> action, raised |-> r.raised,
                     reward |-> r.reward, before |-> gridworld,
                     after |-> r.self])
    /\ UNCHANGED <<valueVars, agentVars, mazeVars, runVars>>

GridNext == GridNewEpisode \/ GridReset \/ GridReact

SpecGridWorld == GridInit /\ [][GridNext]_vars

(***************************************************************************)
(* One TabularQLearningAgent under act, force_act and get_value.           *)
(***************************************************************************)
AgentInit ==
    /\ \E alpha \in Alphas, gamma \in Gammas :
            agent = TabularQLearningAgent_init(alpha, gamma)
    /\ called = [op |-> "__init__"]
    /\ written = {}
    /\ calls = 0
    /\ EnvIdle /\ ValueIdle /\ MazeIdle /\ RunIdle

\* The effect of a force_act outcome r of the call c on the agent.
Forced(c, r) ==
    /\ agent' = r.self
    /\ called' = [c EXCEPT !.ret = r.ret]
    /\ written' = IF r.updated
                  THEN written \cup
                        {<<agent.prev_observation, agent.prev_action>>}
                  ELSE written
    /\ calls' = calls + 1

\* agent.force_act(observation, action, reward)
AgentForceAct ==
    /\ calls < MaxCalls
    /\ \E observation \in ObsInputs, action \in AgentActions,
          reward \in RewardInputs :
         \E r \in {TabularQLearningAgent_force_act(
                        agent, observation, action, reward)} :
            Forced([op |-> "force_act", observation |-> observation,
                    reward |-> reward, before |-> agent, raised |-> FALSE,
                    ret |-> PyNone], r)
    /\ UNCHANGED <<envVars, valueVars, mazeVars, runVars>>

\* agent.act(observation, actions, reward)
AgentAct ==
    /\ calls < MaxCalls
    /\ \E observation \in ObsInputs, actions \in ActionLists,
          reward \in RewardInputs :
         LET choices == TabularQLearningAgent_act_choices(
                            agent, observation, actions)
             c == [op |-> "act", observation |-> observation,
                   reward |-> reward, before |-> agent, raised |-> FALSE,
                   ret |-> PyNone]
         IN  IF choices = {}
             THEN /\ called' = [c EXCEPT !.raised = TRUE]
                  /\ calls' = calls + 1
                  /\ UNCHANGED <<agent, written>>
             ELSE \E best_action \in choices :
                    \E r \in {TabularQLearningAgent_force_act(
                                agent, observation, best_action, reward)} :
                        Forced(c, r)
    /\ UNCHANGED <<envVars, valueVars, mazeVars, runVars>>

\* agent.get_value(observation, action)
AgentGetValue ==
    /\ calls < MaxCalls
    /\ \E observation \in ObsInputs, action \in AgentActions :
         \E r \in {TabularQLearningAgent_get_value(
                        agent, observation, action)} :
             /\ agent' = r.self
             /\ called' = [op |-> "get_value", observation |-> observation,
                           action |-> action, before |-> agent,
                           ret |-> r.value]
    /\ calls' = calls + 1
    /\ UNCHANGED <<written, envVars, valueVars, mazeVars, runVars>>

AgentNext == AgentForceAct \/ AgentAct \/ AgentGetValue

SpecAgent == AgentInit /\ [][AgentNext]_vars

(***************************************************************************)
(* One epsilon-greedy TabularQLearningAgent under act.                     *)
(***************************************************************************)
EpsilonInit ==
    /\ \E alpha \in Alphas, gamma \in Gammas, epsilon \in Epsilons :
            agent = EpsilonGreedyMetaAgent_init(alpha, gamma, epsilon)
    /\ called = [op |-> "__init__"]
    /\ written = {}
    /\ calls = 0
    /\ EnvIdle /\ ValueIdle /\ MazeIdle /\ RunIdle

\* agent.act(observation, actions, reward)
EpsilonAct ==
    /\ calls < MaxEpsilonCalls
    /\ \E observation \in ObsInputs, actions \in ActionLists,
          reward \in RewardInputs, draw \in RandomDraws :
         \E r \in EpsilonGreedyMetaAgent_act(
                    agent, observation, actions, reward, draw) :
            /\ agent' = r.self
            /\ called' = [op |-> "act", observation |-> observation,
                          actions |-> actions, reward |-> reward,
                          before |-> agent, branch |-> r.branch,
                          raised |-> r.raised, ret |-> r.ret]
            /\ written' = IF r.updated
                          THEN written \cup
                                {<<agent.prev_observation, agent.prev_action>>}
                          ELSE written
            /\ calls' = calls + 1
    /\ UNCHANGED <<envVars, valueVars, mazeVars, runVars>>

EpsilonNext == EpsilonAct

SpecEpsilon == EpsilonInit /\ [][EpsilonNext]_vars

(***************************************************************************)
(* A TMaze: construction, new_episode, reset and react.                    *)
(***************************************************************************)
\* The positions given to the constructor, inside and outside 0..length.
HintInputs == -1..(MaxLength + 1)

\* The actions given to react of a TMaze.
MazeActionInputs ==
    {Action(n, NoAttrs) : n \in {"up", "left", "right", "halt", "gate"}}
    \cup {Action("gate", [slot |-> 0, attribute |-> "x"])}

\* TMaze(length, hint_pos, hint_pos_2, redundant): a construction that
\* raises produces no instance, and no call follows it.
MazeInit ==
    /\ \E length \in 0..MaxLength, hint_pos \in HintInputs,
          hint_pos_2 \in {PyNone} \cup {Box(h) : h \in HintInputs},
          redundant \in BOOLEAN, draws \in Draws :
            LET r == TMaze_init(length, hint_pos, hint_pos_2, redundant,
                                draws)
            IN  /\ env = IF r.raised THEN PyNone ELSE r.self
                /\ last = [op |-> "__init__", raised |-> r.raised,
                           length |-> length, hint_pos |-> hint_pos,
                           hint_pos_2 |-> hint_pos_2,
                           redundant |-> redundant]
    /\ steps = 0
    /\ legal = TRUE
    /\ EnvIdle /\ ValueIdle /\ AgentIdle /\ RunIdle

MazeNewEpisode ==
    /\ env # PyNone
    /\ \E draws \in Draws :
        env' = TMaze_new_episode(env, draws)
    /\ last' = [op |-> "new_episode", before |-> env]
    /\ steps' = 0
    /\ legal' = TRUE
    /\ UNCHANGED <<envVars, valueVars, agentVars, runVars>>

MazeReset ==
    /\ env # PyNone
    /\ \E draws \in Draws :
        env' = TMaze_reset(env, draws)
    /\ last' = [op |-> "reset", before |-> env]
    /\ steps' = 0
    /\ legal' = TRUE
    /\ UNCHANGED <<envVars, valueVars, agentVars, runVars>>

MazeReact ==
    /\ env # PyNone
    /\ steps < MaxSteps
    /\ \E action \in MazeActionInputs :
         LET r == TMaze_react(env, action)
         IN  /\ env' = r.self
             /\ last' = [op |-> "react", action |-> action,
                         raised |-> r.raised, reward |-> r.reward,
                         before |-> env]
             /\ legal' = (legal /\ IsMember(action, TMaze_get_actions(env)))
    /\ steps' = steps + 1
    /\ UNCHANGED <<envVars, valueVars, agentVars, runVars>>

MazeNext == MazeNewEpisode \/ MazeReset \/ MazeReact

SpecTMaze == MazeInit /\ [][MazeNext]_vars

(***************************************************************************)
(* gating_memory(cls, reward, num_memory_slots) over a TMaze and over a    *)
(* GridWorld: construction, new_episode, reset and react.                  *)
(***************************************************************************)
\* The instances of cls that the wrapper is built on.
GatedBases ==
    {TMaze_init(length, hint_pos, PyNone, FALSE, draws).self :
        length \in 0..MaxGatedLength, hint_pos \in {0}, draws \in Draws}
    \cup {GridWorld_init(width, 1, <<0, 0>>, <<0, width - 1>>) :
            width \in 1..2}

\* The reward of a gate action.
GateRewards == {Num(-1, 20)}

\* The actions given to react of the wrapper: moves, gate actions on
\* attributes of either class and on memories, a gate action without
\* attributes and a move with the attributes of a gate action.
GatedActionInputs ==
    {Action(n, NoAttrs) : n \in {"up", "left", "right", "halt", "gate"}}
    \cup {Action("gate", [slot |-> s, attribute |-> a]) :
            s \in 0..(MaxSlots - 1),
            a \in {"x", "symbol", "col", MemoryKey(0), MemoryKey(1)}}
    \cup {Action("up", [slot |-> 0, attribute |-> "x"])}

GatedInit ==
    /\ \E base \in GatedBases, reward \in GateRewards,
          num_memory_slots \in 1..MaxSlots :
            /\ env = Gating_init(base, reward, num_memory_slots)
            /\ last = [op |-> "__init__", before |-> base]
    /\ steps = 0
    /\ legal = TRUE
    /\ EnvIdle /\ ValueIdle /\ AgentIdle /\ RunIdle

GatedNewEpisode ==
    /\ \E draws \in Draws :
        env' = Gating_new_episode(env, draws)
    /\ last' = [op |-> "new_episode", before |-> env]
    /\ steps' = 0
    /\ legal' = TRUE
    /\ UNCHANGED <<envVars, valueVars, agentVars, runVars>>

GatedReset ==
    /\ \E draws \in Draws :
        env' = Gating_reset(env, draws)
    /\ last' = [op |-> "reset", before |-> env]
    /\ steps' = 0
    /\ legal' = TRUE
    /\ UNCHANGED <<envVars, valueVars, agentVars, runVars>>

GatedReact ==
    /\ steps < MaxGatedSteps
    /\ \E action \in GatedActionInputs :
         LET r == Gating_react(env, action)
         IN  /\ env' = r.self
             /\ last' = [op |-> "react", action |-> action,
                         raised |-> r.raised, reward |-> r.reward,
                         before |-> env]
             /\ legal' = (legal /\ IsMember(action, Gating_get_actions(env)))
    /\ steps' = steps + 1
    /\ UNCHANGED <<envVars, valueVars, agentVars, runVars>>

GatedNext == GatedNewEpisode \/ GatedReset \/ GatedReact

SpecGated == GatedInit /\ [][GatedNext]_vars

(***************************************************************************)
(* run_interactive_episode on a GridWorld, a TMaze or a gating memory over *)
(* a TMaze, with a TabularQLearningAgent, plain or epsilon-greedy.         *)
(***************************************************************************)
RunEnvs ==
    {GridWorld_init(width, 1, <<0, 0>>, <<0, width - 1>>) : width \in 1..2}
    \cup {TMaze_init(length, 0, PyNone, FALSE, draws).self :
            length \in 0..MaxRunLength, draws \in Draws}
    \cup {Gating_init(TMaze_init(length, 0, PyNone, FALSE, draws).self,
                      Num(-1, 20), 1) :
            length \in 0..1, draws \in Draws}

RunAgents ==
    {TabularQLearningAgent_init(Num(1, 2), Num(9, 10)),
     EpsilonGreedyMetaAgent_init(Num(1, 2), Num(9, 10), Num(1, 2))}

RunInit ==
    /\ env \in RunEnvs
    /\ agent \in RunAgents
    /\ \E num_episodes \in 0..MaxEpisodes : run = Run_init(num_episodes)
    /\ job = [op |-> "idle"]
    /\ last = [op |-> "idle"] /\ steps = 0 /\ legal = TRUE
    /\ called = [op |-> "__init__"] /\ written = {} /\ calls = 0
    /\ EnvIdle /\ ValueIdle

\* for _ in range(num_episodes): the loop ends.
RunReturn ==
    /\ run.pc = "for"
    /\ run.episode = run.num_episodes
    /\ run' = [run EXCEPT !.pc = "done"]
    /\ UNCHANGED <<envVars, valueVars, agentVars, mazeVars, job>>

\* The start of an episode, up to the test of the while loop.
RunNewEpisode ==
    /\ run.pc = "for"
    /\ run.episode < run.num_episodes
    /\ \E draws \in Draws :
         /\ env' = Self_new_episode(env, draws)
         /\ run' = Run_new_episode(run, Self_get_observation(env'))
    /\ UNCHANGED <<envVars, valueVars, agentVars, last, steps, legal, job>>

\* One pass of the while loop: visualize, get_actions, act, react and
\* get_observation; an exception ends the run.
RunStep ==
    /\ run.pc = "while"
    /\ run.obs # PyNone
    /\ run.passes < MaxRunSteps
    /\ IF Self_visualize_raises(env)
       THEN /\ run' = [run EXCEPT !.pc = "raised"]
            /\ UNCHANGED <<env, agent>>
       ELSE LET actions == Self_get_actions(env)
            IN  \E a \in Self_act(agent, run.obs, actions, run.reward) :
                  /\ agent' = a.self
                  /\ IF a.raised
                     THEN /\ run' = [run EXCEPT !.pc = "raised",
                                !.log = Append(@, ActCall(run, actions, a))]
                          /\ UNCHANGED env
                     ELSE LET r == Self_react(env, a.ret)
                          IN  /\ env' = r.self
                              /\ run' =
                                   IF r.raised
                                   THEN [run EXCEPT !.pc = "raised",
                                            !.log = @ \o
                                              <<ActCall(run, actions, a),
                                                ReactCall(a.ret, r)>>]
                                   ELSE [run EXCEPT
                                            !.reward = r.reward,
                                            !.obs = Self_get_observation(r.self),
                                            !.step = @ + 1,
                                            !.passes = @ + 1,
                                            !.log = @ \o
                                              <<ActCall(run, actions, a),
                                                ReactCall(a.ret, r),
                                                [op |-> "get_observation",
                                                 result |->
                                                    Self_get_observation(
                                                        r.self)]>>]
    /\ UNCHANGED <<envVars, valueVars, called, written, calls,
                   last, steps, legal, job>>

\* The end of an episode: visualize and the final agent.act with the
\* terminal observation.
RunFinish ==
    /\ run.pc = "while"
    /\ run.obs = PyNone
    /\ IF Self_visualize_raises(env)
       THEN /\ run' = [run EXCEPT !.pc = "raised"]
            /\ UNCHANGED agent
       ELSE LET actions == Self_get_actions(env)
            IN  \E a \in Self_act(agent, run.obs, actions, run.reward) :
                  /\ agent' = a.self
                  /\ run' = [run EXCEPT
                        !.pc = IF a.raised THEN "raised" ELSE "for",
                        !.episode = IF a.raised THEN @ ELSE @ + 1,
                        !.log = Append(@, ActCall(run, actions, a))]
    /\ UNCHANGED <<envVars, valueVars, called, written, calls,
                   mazeVars, job>>

RunNext == RunReturn \/ RunNewEpisode \/ RunStep \/ RunFinish

SpecRun == RunInit /\ [][RunNext]_vars

(***************************************************************************)
(* pspace_run: one call of get_parameters or of cluster_run on the         *)
(* arguments drawn.                                                        *)
(***************************************************************************)
\* The parameter spaces: list(pspace) of each size.
Pspaces == {[i \in 1..n |-> i - 1] : n \in 0..MaxParams}

\* num_cores and core: absent, or an int inside or outside the range.
CoreInputs == {PyNone} \cup {Box(c) : c \in -1..(MaxCores + 1)}

ClusterInit ==
    /\ \E pspace \in Pspaces, num_cores \in CoreInputs, core \in CoreInputs :
         job = [op |-> "args", pspace |-> pspace,
                num_cores |-> num_cores, core |-> core]
    /\ run = [pc |-> "idle"]
    /\ EnvIdle /\ ValueIdle /\ AgentIdle /\ MazeIdle

\* get_parameters(pspace, num_cores, core)
ClusterGetParameters ==
    /\ job.op = "args"
    /\ job.num_cores # PyNone /\ job.core # PyNone
    /\ job' = [op |-> "get_parameters", pspace |-> job.pspace,
               num_cores |-> job.num_cores, core |-> job.core]
              @@ get_parameters(job.pspace, job.num_cores.value,
                                job.core.value)
    /\ UNCHANGED <<envVars, valueVars, agentVars, mazeVars, run>>

\* cluster_run(filepath, pspace, experiment_fn, num_cores, core)
ClusterRun ==
    /\ job.op = "args"
    /\ job' = [op |-> "cluster_run", pspace |-> job.pspace,
               num_cores |-> job.num_cores, core |-> job.core]
              @@ cluster_run(job.pspace, job.num_cores, job.core)
    /\ UNCHANGED <<envVars, valueVars, agentVars, mazeVars, run>>

ClusterNext == ClusterGetParameters \/ ClusterRun

SpecCluster == ClusterInit /\ [][ClusterNext]_vars

\* The react calls of the current episode, in order.
Reacts == SelectSeq(history, LAMBDA c : c.op = "react")


\* The GridWorld of the worked example: width 3, height 1, from (0,0) to (0,2).
IsExampleGrid ==
    /\ gridworld.width = 3 /\ gridworld.height = 1
    /\ gridworld.start = <<0, 0>> /\ gridworld.goal = <<0, 2>>

\* The episode so far is react(right), react(right) from the start.
TookRightRight ==
    /\ Len(Reacts) = 2
    /\ \A i \in 1..2 : Reacts[i].action = Action("right", NoAttrs)

\* The instance after a move of one cell in the direction of the action.
MovedOneCell(self, action) ==
    CASE action.name = "up" -> [self EXCEPT !.row = self.row - 1]
      [] action.name = "down" -> [self EXCEPT !.row = self.row + 1]
      [] action.name = "left" -> [self EXCEPT !.col = self.col - 1]
      [] action.name = "right" -> [self EXCEPT !.col = self.col + 1]
      [] OTHER -> self

(***************************************************************************)
(* Properties of GridWorld.                                                *)
(***************************************************************************)
\* C1: react called with an action that is not a member (same name, same
\* attributes) of get_actions() raises: it returns no reward and leaves the
\* environment as it was.
C1_IllegalActionRaises ==
    \A i \in DOMAIN history :
        (/\ history[i].op = "react"
         /\ ~IsMember(history[i].action,
                      GridWorld_get_actions(history[i].before)))
        => (history[i].raised /\ history[i].after = history[i].before)

\* C3: get_actions() offers up iff row > 0, down iff row < height-1, left
\* iff col > 0, right iff col < width-1, and nothing else.
C3_GetActionsStayInBounds ==
    LET offered == Names(GridWorld_get_actions(gridworld))
    IN  /\ offered \subseteq {"up", "down", "left", "right"}
        /\ ("up" \in offered) <=> (gridworld.row > 0)
        /\ ("down" \in offered) <=> (gridworld.row < gridworld.height - 1)
        /\ ("left" \in offered) <=> (gridworld.col > 0)
        /\ ("right" \in offered) <=> (gridworld.col < gridworld.width - 1)

\* C4 as stated: in the example grid react(right), react(right) returns -1
\* and then +1, and the observation is terminal afterwards.
C4_RightRightRewardsAsStated ==
    (IsExampleGrid /\ TookRightRight)
    => /\ Reacts[1].reward = -1 /\ Reacts[2].reward = 1
       /\ GridWorld_get_observation(gridworld) = PyNone

\* C4 as amended: in the example grid react(right), react(right) returns -1
\* and then -1 again, and the observation is terminal afterwards.
C4_RightRightRewards ==
    (IsExampleGrid /\ TookRightRight)
    => /\ ~Reacts[1].raised /\ Reacts[1].reward = -1
       /\ ~Reacts[2].raised /\ Reacts[2].reward = -1
       /\ GridWorld_get_observation(gridworld) = PyNone

C4_Witness == IsExampleGrid /\ TookRightRight

\* C5: react with a legal action returns -1 and moves one cell in its
\* direction when the position before the call is not the goal, and returns
\* +1 without moving when the position before the call is the goal.
C5_ReactMovesOneCell ==
    \A i \in DOMAIN history :
        (/\ history[i].op = "react"
         /\ IsMember(history[i].action,
                     GridWorld_get_actions(history[i].before)))
        => LET c == history[i]
           IN  /\ ~c.raised
               /\ IF <<c.before.row, c.before.col>> # c.before.goal
                  THEN c.reward = -1
                       /\ c.after = MovedOneCell(c.before, c.action)
                  ELSE c.reward = 1 /\ c.after = c.before

\* C6: get_state() and get_observation() are both the terminal marker iff
\* (row, col) is the goal, and are both State(row, col) otherwise.
C6_TerminalIffAtGoal ==
    LET atGoal == <<gridworld.row, gridworld.col>> = gridworld.goal
        here == State([row |-> gridworld.row, col |-> gridworld.col])
    IN  /\ (GridWorld_get_state(gridworld) = PyNone) <=> atGoal
        /\ (GridWorld_get_observation(gridworld) = PyNone) <=> atGoal
        /\ ~atGoal => /\ GridWorld_get_state(gridworld) = here
                      /\ GridWorld_get_observation(gridworld) = here

\* A react has just moved the agent onto the goal.
C6_Witness ==
    /\ Len(history) > 0
    /\ history[Len(history)].op = "react"
    /\ history[Len(history)].before.row # gridworld.row
    /\ <<gridworld.row, gridworld.col>> = gridworld.goal
    /\ GridWorld_get_state(gridworld) = PyNone

(***************************************************************************)
(* Properties of the Action values.                                        *)
(***************************************************************************)
\* C2: a == b holds iff the names are equal and the attribute mappings are
\* equal, and a == b implies hash(a) == hash(b).
C2_StructuralEqualityAndHash ==
    compared.done =>
        /\ compared.eq <=> (/\ operands[1].name = operands[2].name
                            /\ operands[1].attrs = operands[2].attrs)
        /\ compared.eq => compared.hashes[1] = compared.hashes[2]

(***************************************************************************)
(* Properties of TabularQLearningAgent.                                    *)
(***************************************************************************)
\* The (observation, action, value) entries of a value table.
Entries(value_function) ==
    UNION {{<<o, value_function[o][i].action, value_function[o][i].value>> :
                i \in DOMAIN value_function[o]} : o \in DOMAIN value_function}

\* Q(observation, action): the stored value, 0 where there is none.
Q(value_function, observation, action) ==
    LET stored == {e \in Entries(value_function) :
                        e[1] = observation /\ e[2] = action}
    IN  IF stored = {} THEN Zero ELSE (CHOOSE e \in stored : TRUE)[3]

\* The greatest stored value at an observation, 0 where there is none.
MaxQ(value_function, observation) ==
    LET stored == {e[3] : e \in {e \in Entries(value_function) :
                                    e[1] = observation}}
    IN  IF stored = {} THEN Zero
        ELSE CHOOSE v \in stored : \A w \in stored : ~NumLess(v, w)

\* The last call was act or force_act and returned.
Acted == called.op \in {"act", "force_act"} /\ ~called.raised

\* C7: when force_act runs with a previous action present and a reward
\* given, the only entry that changes is Q(prev_obs, prev_action), and it
\* becomes (1-alpha)*old + alpha*(reward + gamma*max_a' Q(obs, a')).
C7_UpdateRule ==
    (Acted /\ called.before.prev_action # PyNone /\ called.reward # PyNone)
    => LET b == called.before
           target == NumAdd(called.reward,
                        NumMul(b.discount_rate,
                               MaxQ(b.value_function, called.observation)))
           new == NumAdd(
                    NumMul(NumSub(One, b.learning_rate),
                           Q(b.value_function, b.prev_observation,
                             b.prev_action)),
                    NumMul(b.learning_rate, target))
       IN  Entries(agent.value_function) =
                {e \in Entries(b.value_function) :
                    <<e[1], e[2]>> # <<b.prev_observation, b.prev_action>>}
                \cup {<<b.prev_observation, b.prev_action, new>>}

\* C8: act or force_act without a reward, or with no previous action
\* recorded, leaves the whole value table unchanged.
C8_NoUpdateWithoutFeedback ==
    (/\ called.op \in {"act", "force_act"}
     /\ (called.reward = PyNone \/ called.before.prev_action = PyNone))
    => agent.value_function = called.before.value_function

\* The first call after a terminal observation, made with a reward, by an
\* agent that has learned something.
C8_Witness ==
    /\ Acted
    /\ called.reward # PyNone
    /\ called.before.prev_action = PyNone
    /\ DOMAIN called.before.value_function # {}

\* C9: the value table has no entry whose observation is the terminal
\* marker.
C9_NoTerminalEntry == PyNone \notin DOMAIN agent.value_function

\* An update step has run for a transition into the terminal observation,
\* and the agent has been called with a reward since.
C9_Witness ==
    /\ Acted
    /\ called.reward # PyNone
    /\ called.before.prev_observation = PyNone
    /\ \E key \in written : key[1] # PyNone

\* C10: get_value returns 0 for every (observation, action) pair that no
\* update step has written.
C10_UnwrittenIsZero ==
    /\ \A o \in ObsInputs, a \in AgentActions :
            <<o, a>> \notin written
            => TabularQLearningAgent_get_value(agent, o, a).value = Zero
    /\ (called.op = "get_value"
        /\ <<called.observation, called.action>> \notin written)
       => called.ret = Zero

\* get_value has been called for an unwritten action of an observation that
\* has a written one.
C10_Witness ==
    /\ called.op = "get_value"
    /\ <<called.observation, called.action>> \notin written
    /\ called.observation \in DOMAIN called.before.value_function
    /\ called.ret = Zero

\* The stored values at an observation.
StoredValues(value_function, observation) ==
    {e[3] : e \in {e \in Entries(value_function) : e[1] = observation}}

\* C11: at an observation without valued actions (the terminal marker
\* included) get_best_action is None and get_best_value is 0, so an update
\* for a transition into it has the reward alone as its target; where
\* valued actions exist, get_best_action is one of them and no valued
\* action has a greater value.
C11_BestActionAndValue ==
    /\ \A o \in ObsInputs :
         LET stored == StoredValues(agent.value_function, o)
             best_action == Agent_get_best_action(agent, o)
         IN  IF stored = {}
             THEN /\ best_action = PyNone
                  /\ Agent_get_best_value(agent, o).value = Zero
             ELSE /\ \E e \in Entries(agent.value_function) :
                        e[1] = o /\ e[2] = best_action
                  /\ \A v \in stored :
                        ~NumLess(Q(agent.value_function, o, best_action), v)
                  /\ Agent_get_best_value(agent, o).value =
                        Q(agent.value_function, o, best_action)
    /\ (/\ Acted
        /\ called.before.prev_action # PyNone
        /\ called.reward # PyNone
        /\ StoredValues(called.before.value_function, called.observation) = {})
       => LET b == called.before
          IN  Q(agent.value_function, b.prev_observation, b.prev_action) =
                NumAdd(
                    NumMul(NumSub(One, b.learning_rate),
                           Q(b.value_function, b.prev_observation,
                             b.prev_action)),
                    NumMul(b.learning_rate, called.reward))

\* An update has just run for a transition into the terminal observation,
\* and some observation has two valued actions of which the second is the
\* better one.
C11_Witness ==
    /\ Acted
    /\ called.before.prev_action # PyNone
    /\ called.reward # PyNone
    /\ called.observation = PyNone
    /\ \E o \in DOMAIN agent.value_function :
        /\ Len(agent.value_function[o]) = 2
        /\ NumLess(agent.value_function[o][1].value,
                   agent.value_function[o][2].value)

(***************************************************************************)
(* Properties of the epsilon-greedy wrapper.                               *)
(***************************************************************************)
\* What a caller sees of an outcome of act: the exception or the returned
\* action, and the agent afterwards.
Seen(outcomes) ==
    {[raised |-> r.raised, ret |-> r.ret, self |-> r.self] : r \in outcomes}

\* C12: with epsilon = 1.0 act always calls the wrapped force_act with one
\* of the legal actions and never the wrapped act; with epsilon = 0.0 it
\* always calls the wrapped act, and its returned actions and value tables
\* are exactly those the unwrapped agent can produce on the same inputs.
C12_EpsilonExtremes ==
    /\ (called.op = "act" /\ called.before.epsilon = One)
       => /\ called.branch = "force_act"
          /\ ~called.raised => IsMember(called.ret, called.actions)
    /\ (called.op = "act" /\ called.before.epsilon = Zero)
       => /\ called.branch = "act"
          /\ [raised |-> called.raised, ret |-> called.ret, self |-> agent]
                \in Seen(TabularQLearningAgent_act(
                            called.before, called.observation,
                            called.actions, called.reward))
    /\ agent.epsilon = Zero
       => \A observation \in ObsInputs, actions \in ActionLists,
             reward \in RewardInputs :
            Seen(UNION {EpsilonGreedyMetaAgent_act(
                            agent, observation, actions, reward, draw) :
                        draw \in RandomDraws})
            = Seen(TabularQLearningAgent_act(
                        agent, observation, actions, reward))

\* With epsilon = 1.0 act has returned an action that is not the best
\* valued action of the observation.
C12_Witness ==
    /\ called.op = "act"
    /\ called.before.epsilon = One
    /\ ~called.raised
    /\ Agent_get_best_action(called.before, called.observation) # PyNone
    /\ Agent_get_best_action(called.before, called.observation) # called.ret

(***************************************************************************)
(* The gating-memory wrapper.                                              *)
(***************************************************************************)
\* The slots of the wrapper.
Slots(self) == 0..(self.num_memory_slots - 1)

\* The fields of the wrapped environment: those of the instance that the
\* wrapper did not add.
WrappedFields(self) == DOMAIN self \ {"reward", "num_memory_slots", "memories"}

\* The wrapped environment on its own: an instance of cls with the fields
\* of the wrapped environment.
Unwrapped(self) == [f \in WrappedFields(self) |-> self[f]]

\* The last call on the wrapper was react with an action of get_actions().
LegalGatedReact ==
    /\ last.op = "react"
    /\ IsMember(last.action, Gating_get_actions(last.before))

\* C13: at a non-terminal state get_actions() of the wrapper returns the
\* wrapped environment's actions followed by exactly one gate(slot,
\* attribute) action for each slot in 0..k-1 and each attribute of the
\* wrapped observation, k*n more actions for n observable fields; at a
\* terminal state it returns the wrapped actions alone.
C13_OneGatePerSlotAndAttribute ==
    LET actions == Gating_get_actions(env)
        wrapped == Super_get_actions(env)
        observation == Super_get_state(env)
    IN  IF observation = PyNone
        THEN actions = wrapped
        ELSE LET fields == DOMAIN observation.attrs
             IN  /\ Len(actions)
                    = Len(wrapped)
                      + env.num_memory_slots * Cardinality(fields)
                 /\ SubSeq(actions, 1, Len(wrapped)) = wrapped
                 /\ \A s \in Slots(env), a \in fields :
                        Cardinality(
                            {j \in (Len(wrapped) + 1)..Len(actions) :
                                actions[j]
                                = Action("gate", [slot |-> s,
                                                  attribute |-> a])}) = 1

\* The value of attribute X in the observation that react reads: a wrapped
\* field, or the content of a slot for a memory key.
GatedValue(self, X) ==
    IF \E i \in Slots(self) : MemoryKey(i) = X
    THEN self.memories[(CHOOSE i \in Slots(self) : MemoryKey(i) = X) + 1]
    ELSE Box(Super_get_state(self).attrs[X])

\* C14: react of the wrapper with a legal gate(slot=s, attribute=X) action
\* sets slot s to the current value of X in the wrapped observation, returns
\* r_gate and leaves the other slots and the fields of the wrapped
\* environment unchanged; with any action that is not a gate action it
\* returns the reward of the wrapped react, does to the wrapped environment
\* what the wrapped react does, and leaves every slot unchanged.
C14_GateCopiesAndForwards ==
    last.op = "react"
    => /\ (last.action.name = "gate" /\ LegalGatedReact)
          => /\ ~last.raised
             /\ last.reward = last.before.reward
             /\ \A s \in Slots(env) :
                    env.memories[s + 1]
                    = IF s = last.action.attrs.slot
                      THEN GatedValue(last.before, last.action.attrs.attribute)
                      ELSE last.before.memories[s + 1]
             /\ \A f \in WrappedFields(env) : env[f] = last.before[f]
       /\ last.action.name # "gate"
          => /\ env.memories = last.before.memories
             /\ last.raised = Super_react(last.before, last.action).raised
             /\ last.reward = Super_react(last.before, last.action).reward
             /\ env = Super_react(last.before, last.action).self
       /\ (last.action.name # "gate" /\ LegalGatedReact)
          => LET r == Super_react(Unwrapped(last.before), last.action)
             IN  /\ ~last.raised /\ ~r.raised
                 /\ last.reward = r.reward
                 /\ Unwrapped(env) = r.self

\* A legal gate action has written a value in the second slot while the
\* first slot kept the value it held.
C14_Witness ==
    /\ LegalGatedReact /\ ~last.raised
    /\ last.action.name = "gate"
    /\ last.action.attrs.slot = 1
    /\ env.memories[2] # PyNone
    /\ env.memories[2] # last.before.memories[2]
    /\ env.memories[1] # PyNone
    /\ env.memories[1] = last.before.memories[1]

\* C15: the memory of the wrapper always has exactly k slots; after reset()
\* or new_episode() every slot is null and the wrapped environment is at
\* the start of an episode; between such calls the value of a slot changes
\* only through a gate action on that slot.
C15_MemorySlots ==
    /\ DOMAIN env.memories = 1..env.num_memory_slots
    /\ last.op # "__init__"
       => env.num_memory_slots = last.before.num_memory_slots
    /\ last.op \in {"__init__", "new_episode", "reset"}
       => /\ \A s \in Slots(env) : env.memories[s + 1] = PyNone
          /\ IF IsGridWorld(env)
             THEN <<env.row, env.col>> = env.start
             ELSE env.x = 0 /\ env.y = 0
    /\ last.op = "react"
       => \A s \in Slots(env) :
            env.memories[s + 1] # last.before.memories[s + 1]
            => /\ last.action.name = "gate"
               /\ ~last.raised
               /\ last.action.attrs.slot = s

\* new_episode has been called on a wrapper that held a value in a slot
\* and whose wrapped environment had moved.
C15_Witness ==
    /\ last.op = "new_episode"
    /\ \E s \in Slots(env) : last.before.memories[s + 1] # PyNone
    /\ IF IsGridWorld(env)
       THEN <<last.before.row, last.before.col>> # env.start
       ELSE last.before.y # 0
    /\ \A s \in Slots(env) : env.memories[s + 1] = PyNone

\* The result r of get_state() or get_observation() of the wrapper is the
\* wrapped one, base, with the memories.
WithMemories(r, base) ==
    /\ r = PyNone <=> base = PyNone
    /\ base # PyNone
       => /\ DOMAIN r.attrs
             = {f \in DOMAIN base.attrs : ~IsMemoryKey(f)}
               \cup {MemoryKey(i) : i \in Slots(env)}
          /\ \A f \in DOMAIN base.attrs :
                ~IsMemoryKey(f) => r.attrs[f] = base.attrs[f]
          /\ \A i \in Slots(env) :
                r.attrs[MemoryKey(i)] = env.memories[i + 1]

\* C16: get_state() and get_observation() of the wrapper are terminal if
\* and only if the wrapped environment's are; otherwise they have the
\* wrapped fields, without any whose name starts with memory_, and exactly
\* the fields memory_0..memory_{k-1}, memory_i being the content of slot i.
C16_StateWithMemories ==
    /\ WithMemories(Gating_get_state(env), Super_get_state(env))
    /\ WithMemories(Gating_get_observation(env), Super_get_state(env))

\* The wrapper reports a state with two slots that hold different contents.
C16_Witness ==
    /\ env.num_memory_slots = 2
    /\ env.memories[1] # env.memories[2]
    /\ env.memories[2] # PyNone
    /\ Gating_get_state(env) # PyNone
    /\ Gating_get_observation(env).attrs[MemoryKey(1)] = env.memories[2]

\* C22: in every state that legal actions reach, of a GridWorld, of a TMaze
\* and of the gating memory over either, get_actions() is not empty unless
\* the state is terminal.
C22_ActionsUnlessTerminal ==
    legal
    => /\ Self_get_state(env) # PyNone => Self_get_actions(env) # <<>>
       /\ Self_get_state(Unwrapped(env)) # PyNone
            => Self_get_actions(Unwrapped(env)) # <<>>

\* Legal actions have led a TMaze under the gating memory up to the
\* junction, where left and right are offered.
C22_Witness ==
    /\ legal /\ LegalGatedReact
    /\ ~IsGridWorld(env)
    /\ env.length = 1 /\ env.y = 1 /\ env.x = 0
    /\ Self_get_state(Unwrapped(env)) # PyNone
    /\ Len(Self_get_actions(Unwrapped(env))) = 2


(***************************************************************************)
(* TMaze.                                                                  *)
(***************************************************************************)
\* The last call on the TMaze was react with an action of get_actions().
LegalReact ==
    /\ last.op = "react"
    /\ IsMember(last.action, TMaze_get_actions(last.before))

\* C17: after new_episode and legal react calls, get_state() and
\* get_observation() of a TMaze are the terminal marker if and only if
\* y == length and x != 0.
C17_TerminalIffAtSide ==
    (env # PyNone /\ legal)
    => /\ (TMaze_get_state(env) = PyNone)
            <=> (env.y = env.length /\ env.x # 0)
       /\ (TMaze_get_observation(env) = PyNone)
            <=> (env.y = env.length /\ env.x # 0)

\* A legal episode has walked up a corridor of length 2 or more and to a
\* side, where the state is terminal, after the junction where it was not.
C17_Witness ==
    /\ env # PyNone /\ legal /\ LegalReact
    /\ env.length >= 2
    /\ last.before.y = env.length
    /\ TMaze_get_state(last.before) # PyNone
    /\ TMaze_get_state(env) = PyNone

\* C18: at the junction (x == 0, y == length) react with the side equal to
\* goal_x returns +10 and with the opposite side -10, for goal_x = -1 and
\* for goal_x = 1; every react with an up action that get_actions() offers
\* returns -1, the one that arrives at the junction included.
C18_JunctionAndStepRewards ==
    (env # PyNone /\ last.op = "react" /\ ~last.raised)
    => /\ (last.before.x = 0 /\ last.before.y = last.before.length)
          => /\ last.action = Action("right", NoAttrs)
                => last.reward = IF last.before.goal_x = 1
                                 THEN Num(10, 1) ELSE Num(-10, 1)
             /\ last.action = Action("left", NoAttrs)
                => last.reward = IF last.before.goal_x = -1
                                 THEN Num(10, 1) ELSE Num(-10, 1)
       /\ (last.action = Action("up", NoAttrs) /\ LegalReact)
          => last.reward = Num(-1, 1)

\* With goal_x = -1 the left side has paid +10, after an up action arrived
\* at the junction.
C18_Witness ==
    /\ env # PyNone /\ legal /\ LegalReact
    /\ env.length >= 1
    /\ last.before.x = 0 /\ last.before.y = env.length
    /\ env.goal_x = -1
    /\ last.action = Action("left", NoAttrs)
    /\ last.reward = Num(10, 1)

\* C19: after a construction with valid parameters and any new_episode,
\* reset and legal react calls, 0 <= hint_pos <= length, goal_x is -1 or 1,
\* x is -1, 0 or 1, 0 <= y <= length, and x != 0 implies y == length;
\* new_episode sets x = 0 and y = 0.
C19_TypeInvariant ==
    /\ (env # PyNone /\ legal)
       => /\ 0 <= env.hint_pos /\ env.hint_pos <= env.length
          /\ env.goal_x \in {-1, 1}
          /\ env.x \in {-1, 0, 1}
          /\ 0 <= env.y /\ env.y <= env.length
          /\ env.x # 0 => env.y = env.length
    /\ (env # PyNone /\ last.op \in {"new_episode", "reset"})
       => (env.x = 0 /\ env.y = 0)

\* new_episode has been called at a side of the junction, which a legal
\* episode had reached and halted at.
C19_Witness ==
    /\ env # PyNone
    /\ last.op = "new_episode"
    /\ last.before.x # 0 /\ last.before.y = last.before.length
    /\ last.before.length >= 1
    /\ env.x = 0 /\ env.y = 0

\* C20: the construction of a TMaze raises, and there is no instance, when
\* hint_pos is outside [0, length], when hint_pos_2 is given and is outside
\* [0, length], or when redundant is true and hint_pos_2 is absent or
\* length < 3; with any other parameters it makes the instance.
C20_ConstructionFailsFast ==
    last.op = "__init__"
    => /\ last.raised
            <=> \/ last.hint_pos \notin 0..last.length
                \/ /\ last.hint_pos_2 # PyNone
                   /\ last.hint_pos_2.value \notin 0..last.length
                \/ /\ last.redundant
                   /\ (last.hint_pos_2 = PyNone \/ last.length < 3)
       /\ last.raised <=> env = PyNone
       /\ ~last.raised
            => /\ env.length = last.length
               /\ env.hint_pos = last.hint_pos
               /\ env.hint_pos_2 = last.hint_pos_2
               /\ env.redundant = last.redundant

\* The construction has raised for redundant = True without a second hint,
\* the other parameters being valid.
C20_Witness ==
    /\ last.op = "__init__"
    /\ last.raised /\ env = PyNone
    /\ last.redundant /\ last.hint_pos_2 = PyNone
    /\ last.length >= 3
    /\ last.hint_pos \in 0..last.length

(***************************************************************************)
(* run_interactive_episode.                                                *)
(***************************************************************************)
\* C21: within an episode of run_interactive_episode the calls alternate
\* get_observation, agent.act, env.react; the first act of an episode is
\* given no reward, every later act is given the reward returned by the
\* react just before it, and the one act with the terminal observation is
\* the last call of the episode.
C21_CallsAlternate ==
    run.pc # "idle"
    => LET log == run.log
       IN  /\ \A j \in DOMAIN log :
                /\ log[j].op =
                     CASE j = 1 -> "new_episode"
                       [] j = 2 -> "get_observation"
                       [] j > 2 /\ j % 3 = 0 -> "act"
                       [] j > 2 /\ j % 3 = 1 -> "react"
                       [] OTHER -> "get_observation"
                /\ log[j].op = "act"
                   => /\ log[j].observation = log[j - 1].result
                      /\ log[j].reward =
                            IF j = 3 THEN PyNone ELSE log[j - 2].reward
                      /\ log[j].observation = PyNone
                            => (j = Len(log) /\ run.pc # "while")
                /\ log[j].op = "react"
                   => log[j].action = log[j - 1].ret
                /\ (log[j].op = "get_observation" /\ j < Len(log))
                   => log[j + 1].op = "act"
           /\ (run.pc = "for" /\ run.episode > 0)
              => /\ log[Len(log)].op = "act"
                 /\ log[Len(log)].observation = PyNone

\* The second episode has ended with the act that delivers the reward +10
\* of its last react, after at least two passes of the loop.
C21_Witness ==
    /\ run.pc = "for" /\ run.episode = 2
    /\ Len(run.log) >= 9
    /\ run.log[3].reward = PyNone
    /\ run.log[Len(run.log)].observation = PyNone
    /\ run.log[Len(run.log)].reward = Num(10, 1)

\* C30: when run_interactive_episode drives the agent, plain or
\* epsilon-greedy, every action agent.act returns for a non-terminal
\* observation is, by name and attributes, in the list of legal actions
\* given to that call, in every episode, and env.react never raises.
C30_ActsAreLegal ==
    run.pc # "idle"
    => \A j \in DOMAIN run.log :
        /\ (run.log[j].op = "act" /\ run.log[j].observation # PyNone)
           => /\ ~run.log[j].raised
              /\ IsMember(run.log[j].ret, run.log[j].actions)
        /\ run.log[j].op = "react" => ~run.log[j].raised

\* In a second episode on a gating memory the agent has acted at an
\* observation for which it holds a value, with several legal actions.
C30_Witness ==
    /\ run.pc # "idle" /\ run.episode = 1
    /\ IsGated(env)
    /\ \E j \in DOMAIN run.log :
        /\ run.log[j].op = "act"
        /\ run.log[j].observation \in DOMAIN agent.value_function
        /\ Len(run.log[j].actions) >= 2
        /\ IsMember(run.log[j].ret, run.log[j].actions)

(***************************************************************************)
(* pspace_run.                                                             *)
(***************************************************************************)
\* The indices lo..hi-1 as a list.
Indices(lo, hi) == [j \in 1..(hi - lo) |-> lo + j - 1]

\* C23: for total = len(pspace), N >= 1 and 0 <= i < N, get_parameters
\* returns the elements at the indices [chunk*i + min(i, rem),
\* chunk*(i+1) + min(i+1, rem)) with chunk = floor(total/N) and
\* rem = total mod N; over i = 0..N-1 the slices are contiguous, every
\* element is in exactly one of them, and the first rem workers get
\* chunk + 1 elements and the others chunk.
C23_ContiguousNearEqualChunks ==
    (job.op = "get_parameters" /\ job.num_cores.value >= 1)
    => LET total == Len(job.pspace)
           N == job.num_cores.value
           chunk == total \div N
           rem == total % N
           lo(i) == chunk * i + Min(i, rem)
           hi(i) == chunk * (i + 1) + Min(i + 1, rem)
           slice(i) == get_parameters(job.pspace, N, i).ret
       IN  /\ (0 <= job.core.value /\ job.core.value < N)
              => /\ ~job.raised
                 /\ job.ret = Indices(lo(job.core.value), hi(job.core.value))
           /\ \A i \in 0..(N - 1) :
                /\ slice(i) = Indices(lo(i), hi(i))
                /\ Len(slice(i)) = IF i < rem THEN chunk + 1 ELSE chunk
                /\ lo(i) = IF i = 0 THEN 0 ELSE hi(i - 1)
           /\ hi(N - 1) = total
           /\ \A e \in 0..(total - 1) :
                Cardinality({i \in 0..(N - 1) :
                    \E j \in DOMAIN slice(i) : slice(i)[j] = e}) = 1

\* The second of three workers has got the indices 2 and 3 of five.
C23_Witness ==
    /\ job.op = "get_parameters"
    /\ Len(job.pspace) = 5
    /\ job.num_cores = Box(3) /\ job.core = Box(1)
    /\ job.ret = <<2, 3>>

\* C29: cluster_run with num_cores > 0 and a core runs a job only when
\* 0 <= core <= num_cores - 1; with any other core, core == num_cores
\* included, it exits with status 1 and runs no experiment.
C29_CoreOutOfRangeExits ==
    (/\ job.op = "cluster_run"
     /\ job.num_cores # PyNone /\ job.core # PyNone
     /\ job.num_cores.value > 0)
    => IF 0 <= job.core.value /\ job.core.value <= job.num_cores.value - 1
       THEN job.branch = "run_job"
       ELSE /\ job.branch = "exit"
            /\ job.exit = Box(1)
            /\ job.ran = <<>>

(***************************************************************************)
(* The agent: reads, bookkeeping and the two branches of epsilon-greedy.   *)
(***************************************************************************)
\* C24: a call of get_value(observation, action) leaves
\* get_valued_actions(o) unchanged for every observation o, so the valued
\* actions of an observation are actions that an update step wrote.
C24_ReadsLeaveValuedActions ==
    /\ called.op = "get_value"
       => \A o \in ObsInputs :
            TabularQLearningAgent_get_valued_actions(agent, o)
            = TabularQLearningAgent_get_valued_actions(called.before, o)
    /\ \A o \in DOMAIN agent.value_function :
         \A i \in DOMAIN agent.value_function[o] :
            <<o, agent.value_function[o][i].action>> \in written

\* C25: with a single hint the symbol of the observation of a TMaze is
\* goal_x exactly when y == hint_pos and 0 at every other y; with two hints
\* it is logical_connective at y == hint_pos and direction at
\* y == hint_pos_2 other than hint_pos; in every episode
\* logical_connective * direction == goal_x, and with redundant hints
\* redundant_connective * redundant_direction == goal_x, each the sign
\* inversion of its original.
C25_HintVisibility ==
    env # PyNone
    => /\ TMaze_get_observation(env) # PyNone
          => LET symbol == TMaze_get_observation(env).attrs.symbol
             IN  /\ env.hint_pos_2 = PyNone
                    => /\ symbol = env.goal_x <=> env.y = env.hint_pos
                       /\ env.y # env.hint_pos => symbol = 0
                 /\ env.hint_pos_2 # PyNone
                    => /\ env.y = env.hint_pos
                          => symbol = env.logical_connective
                       /\ (env.y # env.hint_pos
                           /\ env.y = env.hint_pos_2.value)
                          => symbol = env.direction
       /\ env.logical_connective * env.direction = env.goal_x
       /\ env.redundant
          => /\ env.redundant_connective.value
                * env.redundant_direction.value = env.goal_x
             /\ env.redundant_connective.value = -env.logical_connective
             /\ env.redundant_direction.value = -env.direction

\* In an episode with logical_connective = -1 a legal walk has reached the
\* second hint of a redundant TMaze, which shows the direction.
C25_Witness ==
    /\ env # PyNone /\ legal /\ LegalReact
    /\ env.redundant
    /\ env.logical_connective = -1
    /\ env.y = env.hint_pos_2.value /\ env.y # env.hint_pos
    /\ TMaze_get_observation(env).attrs.symbol = env.direction
    /\ env.direction = -env.goal_x

\* C26: after force_act(obs, a, reward) returns, prev_observation is obs,
\* and prev_action is a when obs is not terminal and None when it is; so a
\* recorded prev_action implies a non-terminal prev_observation, and the
\* first act after a terminal observation makes no update even when a
\* reward is given.
C26_PreviousPair ==
    /\ Acted
       => /\ agent.prev_observation = called.observation
          /\ agent.prev_action =
                IF called.observation = PyNone THEN PyNone ELSE called.ret
    /\ agent.prev_action # PyNone => agent.prev_observation # PyNone
    /\ (Acted /\ called.before.prev_observation = PyNone)
       => agent.value_function = called.before.value_function

\* After a terminal observation, with values stored, act has been given a
\* reward at a non-terminal observation.
C26_Witness ==
    /\ Acted /\ called.op = "act"
    /\ called.before.prev_observation = PyNone
    /\ DOMAIN called.before.value_function # {}
    /\ called.reward # PyNone
    /\ called.observation # PyNone
    /\ agent.prev_action = called.ret

\* The outcomes of act that return, over every value of random().
Returned(self, observation, actions, reward) ==
    {o \in UNION {EpsilonGreedyMetaAgent_act(self, observation, actions,
                                             reward, draw) :
                    draw \in RandomDraws} : ~o.raised}

\* The agent but for the recorded prev_action.
ButPrevAction(self) == [self EXCEPT !.prev_action = PyNone]

\* C27: the value table after an act of the epsilon-greedy agent is the
\* table after every act that returns from the same agent state with the
\* same arguments, whether it explores or delegates: both make the same
\* update of Q(prev_obs, prev_action), and the outcomes differ only in the
\* returned action and the recorded prev_action.
C27_BranchesUpdateAlike ==
    (called.op = "act" /\ ~called.raised)
    => \A o \in Returned(called.before, called.observation,
                         called.actions, called.reward) :
        /\ o.self.value_function = agent.value_function
        /\ ButPrevAction(o.self) = ButPrevAction(agent)
        /\ o.self.prev_action = o.ret \/ o.self.prev_action = PyNone

\* With epsilon = 0.5 act has explored and updated a value, from a state
\* and arguments with which it could also have delegated to a stored best
\* action.
C27_Witness ==
    /\ called.op = "act" /\ ~called.raised
    /\ called.before.epsilon = Num(1, 2)
    /\ called.branch = "force_act"
    /\ agent.value_function # called.before.value_function
    /\ Agent_get_best_action(called.before, called.observation) # PyNone
    /\ \E o \in Returned(called.before, called.observation,
                         called.actions, called.reward) :
            o.branch = "act" /\ o.ret # called.ret

(***************************************************************************)
(* GridWorld: the position.                                                *)
(***************************************************************************)
\* C28: with start and goal inside the grid, after any new_episode, reset
\* and react calls 0 <= row < height and 0 <= col < width; new_episode and
\* reset put (row, col) back to start; no call changes width, height,
\* start or goal.
C28_PositionInvariant ==
    /\ [](/\ 0 <= gridworld.row /\ gridworld.row < gridworld.height
          /\ 0 <= gridworld.col /\ gridworld.col < gridworld.width
          /\ (history # <<>>
              /\ history[Len(history)].op \in {"new_episode", "reset"})
             => <<gridworld.row, gridworld.col>> = gridworld.start)
    /\ [][/\ gridworld'.width = gridworld.width
          /\ gridworld'.height = gridworld.height
          /\ gridworld'.start = gridworld.start
          /\ gridworld'.goal = gridworld.goal]_vars

\* react(up) has returned at row 0 away from the goal, and the row is
\* still 0.
C28_Witness ==
    /\ history # <<>>
    /\ LET c == history[Len(history)]
       IN  /\ c.op = "react" /\ ~c.raised
           /\ c.action = Action("up", NoAttrs)
           /\ c.before.row = 0
           /\ <<c.before.row, c.before.col>> # c.before.goal
           /\ gridworld.row = 0

(***************************************************************************)
(* TMaze: the length of an episode.                                        *)
(***************************************************************************)
\* C31: from new_episode, every sequence of legal actions on an unwrapped
\* TMaze reaches the terminal observation after exactly length + 1 react
\* calls, length up actions and then one left or right: before that the
\* observation is not terminal and an action is offered, and no halt is
\* taken on the way.
C31_EpisodeTerminates ==
    (env # PyNone /\ legal)
    => /\ steps <= env.length
          => /\ TMaze_get_observation(env) # PyNone
             /\ TMaze_get_actions(env) # <<>>
             /\ env.x = 0 /\ env.y = steps
       /\ steps >= env.length + 1 => TMaze_get_observation(env) = PyNone
       /\ (last.op = "react" /\ steps <= env.length + 1)
          => /\ ~last.raised
             /\ last.action.name \in
                    IF steps <= env.length THEN {"up"} ELSE {"left", "right"}

\* A legal episode on a TMaze of length 3 has become terminal with its
\* fourth react, a left or a right taken at the junction.
C31_Witness ==
    /\ env # PyNone /\ legal /\ LegalReact
    /\ env.length = 3
    /\ steps = 4
    /\ last.action.name \in {"left", "right"}
    /\ TMaze_get_observation(last.before) # PyNone
    /\ TMaze_get_observation(env) = PyNone

=============================================================================
